---------------------------- MODULE Spec2Model ----------------------------
(***************************************************************************)
(* State-machine model of the memoc allocator building blocks              *)
(* (include/memoc/blocks.h, include/memoc/allocators.h).                   *)
(*                                                                         *)
(* Pointers are integer addresses.  The static buffers of the stacks       *)
(* manager occupy one contiguous address range; every region handed out by *)
(* std::malloc is one abstract heap address outside that range.            *)
(* An allocator operation is a relation: it yields the SET of outcomes the *)
(* code can produce (std::malloc may return any unused region or null).    *)
(***************************************************************************)
EXTENDS Integers, Sequences, FiniteSets, TLC

(***************************************************************************)
(* Bounds of the model (not program constants).                            *)
(***************************************************************************)
MaxHeap == 2      \* number of regions std::malloc can have live at once
MaxLive == 2      \* number of blocks the caller holds at once
MaxTotal == 160   \* calls that take Stats' total_allocated_ above it are cut off
MemLen == 4       \* bytes in the array the block operations work on
MaxSteps == 6     \* operations the pointer program makes in a run

(***************************************************************************)
(* Program constants and template arguments.                               *)
(***************************************************************************)
Null == 0
hint_min == -1                \* std::numeric_limits<std::int64_t>::min()
uuid_ == 7                    \* encode("095deb2c-..."), a constant # hint_min
Stacks_count == 2
Buffer_size == 48
Min_size == 16
Max_size == 32
Max_list_size == 2
Number_of_records == 2
sizeof_Record == 40           \* MEMOC_SSIZEOF(Record): 5 fields of 8 bytes
Stack_base == 2               \* address of buffers_[0][0]
Heap_base == 200              \* first address std::malloc hands out
Array_base == 300             \* address of the caller's array

\* the regions std::malloc can hand out in a run with an allocator of type t:
\* the types that keep regions for themselves (cached blocks, records) get
\* as many more as they can keep
HeapAddrs(t) ==
    Heap_base .. (Heap_base + MaxHeap - 1
                  + (CASE t = "Shared<Free_list<Malloc>>" -> Max_list_size - 1
                       [] t = "Stats<Malloc>" -> Number_of_records - 1
                       [] OTHER -> 0))

\* address of buffers_[i][0]: the buffers are rows of one 2-D array
buffers_(i) == Stack_base + i * Buffer_size

Stacks == 0 .. (Stacks_count - 1)

Min(S) == CHOOSE x \in S : \A y \in S : x <= y

(***************************************************************************)
(* blocks.h: Block<void>                                                   *)
(***************************************************************************)
\* faulty variant: the size is kept when the pointer is null
Block_partial(s, p, hint) ==
    [s_    |-> IF s > 0 THEN s ELSE 0,
     p_    |-> IF s > 0 THEN p ELSE Null,
     hint_ |-> hint]

\* constructor: a partially empty (size, pointer) pair is normalised
Block(s, p, hint) ==
    [s_    |-> IF p # Null THEN (IF s > 0 THEN s ELSE 0) ELSE 0,
     p_    |-> IF s > 0 THEN p ELSE Null,
     hint_ |-> hint]

EmptyBlock == Block(0, Null, hint_min)

empty(b) == (b.s_ = 0) /\ (b.p_ = Null)

(***************************************************************************)
(* blocks.h: Block<T> and the operations on blocks.  The template argument *)
(* T of a block is passed next to it.  m is the memory the blocks point    *)
(* into, a function from addresses to bytes; an object of n bytes is the   *)
(* little-endian number its bytes spell.                                   *)
(***************************************************************************)
ElemTypes == {"void", "uint8_t", "uint16_t"}

\* MEMOC_SSIZEOF(std::conditional_t<std::is_same_v<void, T>, std::uint8_t, T>)
ssizeof(T) == IF T = "uint16_t" THEN 2 ELSE 1

\* the value of the n-byte object at address p
RECURSIVE load(_, _, _)
load(m, p, n) == IF n = 0 THEN 0 ELSE m[p] + 256 * load(m, p + 1, n - 1)

\* m after the n-byte object at p is assigned v (converted to n bytes)
RECURSIVE store(_, _, _, _)
store(m, p, n, v) ==
    IF n = 0 THEN m
    ELSE store([m EXCEPT ![p] = v % 256], p + 1, n - 1, v \div 256)

\* operator==(Block<T1>, Block<T2>), neither T1 nor T2 void
Block_eq(T1, lhs, T2, rhs, m) ==
    IF lhs.s_ # rhs.s_ THEN FALSE
    ELSE IF empty(lhs) THEN TRUE
    ELSE \A i \in 0 .. (lhs.s_ - 1) :
            load(m, lhs.p_ + i * ssizeof(T1), ssizeof(T1))
                = load(m, rhs.p_ + i * ssizeof(T2), ssizeof(T2))

\* operator==(Block<T1>, Block<T2>), T1 or T2 void: the loop runs over the
\* first T1_size bytes
Block_eq_void(T1, lhs, T2, rhs, m) ==
    IF lhs.s_ * ssizeof(T1) # rhs.s_ * ssizeof(T2) THEN FALSE
    ELSE IF empty(lhs) THEN TRUE
    ELSE \A i \in 0 .. (ssizeof(T1) - 1) : m[lhs.p_ + i] = m[rhs.p_ + i]

\* the loop  for (i < n) dst[i] = src[i]  from iteration i on, on objects
\* of n1 bytes at sp and of n2 bytes at dp
RECURSIVE copy_loop(_, _, _, _, _, _, _)
copy_loop(m, i, n, sp, n1, dp, n2) ==
    IF i >= n THEN m
    ELSE copy_loop(store(m, dp + i * n2, n2, load(m, sp + i * n1, n1)),
                   i + 1, n, sp, n1, dp, n2)

\* faulty variant: the count is not held to the size of the destination
Block_copy_src_size(T1, src, T2, dst, count, m) ==
    IF count = 0 THEN <<0, m>>
    ELSE IF empty(src) \/ empty(dst) THEN <<0, m>>
    ELSE LET min_size   == src.s_
             num_copied == IF count > min_size THEN min_size ELSE count
         IN  <<num_copied,
               copy_loop(m, 0, num_copied, src.p_, ssizeof(T1), dst.p_, ssizeof(T2))>>

\* copy(Block<T1> src, Block<T2> dst, count), neither void:
\* <<the number returned, the memory afterwards>>
Block_copy(T1, src, T2, dst, count, m) ==
    IF count = 0 THEN <<0, m>>
    ELSE IF empty(src) \/ empty(dst) THEN <<0, m>>
    ELSE LET min_size   == IF src.s_ > dst.s_ THEN dst.s_ ELSE src.s_
             num_copied == IF count > min_size THEN min_size ELSE count
         IN  <<num_copied,
               copy_loop(m, 0, num_copied, src.p_, ssizeof(T1), dst.p_, ssizeof(T2))>>

\* copy(Block<T1> src, Block<T2> dst, bytes), T1 or T2 void
Block_copy_void(T1, src, T2, dst, bytes, m) ==
    IF bytes = 0 THEN <<0, m>>
    ELSE IF empty(src) \/ empty(dst) THEN <<0, m>>
    ELSE LET src_bytes_size == src.s_ * ssizeof(T1)
             dst_bytes_size == dst.s_ * ssizeof(T2)
             min_size   == IF src_bytes_size > dst_bytes_size
                           THEN dst_bytes_size ELSE src_bytes_size
             num_copied == IF bytes > min_size THEN min_size ELSE bytes
         IN  <<num_copied, copy_loop(m, 0, num_copied, src.p_, 1, dst.p_, 1)>>

\* the loop  for (i < n) ptr[i] = value  from iteration i on
RECURSIVE set_loop(_, _, _, _, _, _)
set_loop(m, i, n, p, sz, value) ==
    IF i >= n THEN m
    ELSE set_loop(store(m, p + i * sz, sz, value), i + 1, n, p, sz, value)

\* set(Block<T1> b, value, count), T1 not void
Block_set(T1, b, value, count, m) ==
    IF count = 0 THEN <<0, m>>
    ELSE IF empty(b) THEN <<0, m>>
    ELSE LET num_set == IF count > b.s_ THEN b.s_ ELSE count
         IN  <<num_set, set_loop(m, 0, num_set, b.p_, ssizeof(T1), value)>>

\* set(Block<void> b, const T& value, count)
Block_set_void(b, T, value, count, m) ==
    IF count = 0 THEN <<0, m>>
    ELSE IF empty(b) THEN <<0, m>>
    ELSE LET block_size_by_type == b.s_ \div ssizeof(T)
             num_set == IF count > block_size_by_type
                        THEN block_size_by_type ELSE count
         IN  <<num_set, set_loop(m, 0, num_set, b.p_, ssizeof(T), value)>>

(***************************************************************************)
(* erroc::Expected<Block<void>, Allocator_error>                           *)
(***************************************************************************)
Allocator_error == {"invalid_size", "out_of_memory", "unknown"}

Value(b) == [ok |-> TRUE, err |-> "none", b |-> b]

Unexpected(e) == [ok |-> FALSE, err |-> e, b |-> EmptyBlock]

\* one outcome of allocate: instance state, machine state, result
Out(a, g, r) == [a |-> a, g |-> g, r |-> r]

\* one outcome of deallocate: instance state, machine state, caller's block
DOut(a, g, b) == [a |-> a, g |-> g, b |-> b]

(***************************************************************************)
(* Allocator types (template instantiations) under analysis.               *)
(***************************************************************************)
Types == {"Malloc", "Stack", "Free_list<Malloc>", "Stats<Malloc>",
          "Stats<Stack>", "Shared<Stack>", "Shared<Free_list<Malloc>>",
          "Fallback<Stack,Malloc>"}

\* Shared_allocator<Stack_allocator<>, 1>: same Internal_allocator, other id
PeerTypes == {"Shared<Stack,1>"}

Kind(t) ==
    CASE t = "Malloc" -> "Malloc"
      [] t = "Stack" -> "Stack"
      [] t \in {"Free_list<Malloc>", "Free_list<Stack>"} -> "Free_list"
      [] t \in {"Shared<Stack,1>", "Shared<Free_list<Malloc>>"} -> "Shared"
      [] t \in {"Stats<Malloc>", "Stats<Stack>"} -> "Stats"
      [] t = "Shared<Stack>" -> "Shared"
      [] t \in {"Fallback<Stack,Malloc>", "Fallback<Free_list<Malloc>,Stack>"}
            -> "Fallback"

\* Internal_allocator template argument
InnerOf(t) ==
    CASE t \in {"Free_list<Malloc>", "Stats<Malloc>"} -> "Malloc"
      [] t \in {"Stats<Stack>", "Shared<Stack>", "Shared<Stack,1>",
                 "Free_list<Stack>"} -> "Stack"
      [] t = "Shared<Free_list<Malloc>>" -> "Free_list<Malloc>"

PrimaryOf(t) == CASE t = "Fallback<Stack,Malloc>" -> "Stack"
                  [] t = "Fallback<Free_list<Malloc>,Stack>" -> "Free_list<Malloc>"

FallbackOf(t) == CASE t = "Fallback<Stack,Malloc>" -> "Malloc"
                   [] t = "Fallback<Free_list<Malloc>,Stack>" -> "Stack"

SharedTypes == {t \in Types \cup PeerTypes : Kind(t) = "Shared"}

\* the other allocator objects of the program: for a Shared_allocator, a
\* second instance of the same type and an instance with another id; for a
\* Stack_allocator, a copy of the instance (sm_ has no non-static member, so
\* the copy is as empty as the original)
Peers(t) ==
    CASE t = "Shared<Stack>" -> <<"Shared<Stack>", "Shared<Stack,1>">>
      [] t = "Stack" -> <<"Stack">>
      [] t = "Shared<Free_list<Malloc>>" -> <<"Shared<Free_list<Malloc>>">>
      [] OTHER -> <<>>

\* default-constructed instance of type t (its non-static data members)
RECURSIVE create(_)
create(t) ==
    CASE Kind(t) \in {"Malloc", "Stack", "Shared"} -> <<>>
      [] Kind(t) = "Free_list" ->
            [internal_ |-> create(InnerOf(t)), root_ |-> Null, list_size_ |-> 0]
      [] Kind(t) = "Stats" ->
            [internal_ |-> create(InnerOf(t)), number_of_records_ |-> 0,
             total_allocated_ |-> 0, root_ |-> Null, tail_ |-> Null]
      [] Kind(t) = "Fallback" ->
            [primary_ |-> create(PrimaryOf(t)), fallback_ |-> create(FallbackOf(t))]

RECURSIVE allocate(_, _, _, _)
RECURSIVE deallocate(_, _, _, _)
RECURSIVE owns(_, _, _, _)
RECURSIVE destroy(_, _, _)
RECURSIVE copy(_, _, _)

\* one outcome of a destructor: machine state, blocks it handed to Inner
Gone(g, log) == [g |-> g, log |-> log]

\* memory given back holds nothing any more: the objects that were overlaid
\* on the addresses in S are gone
Dead(g, S) ==
    [g EXCEPT !.nodes = [x \in (DOMAIN @) \ S |-> @[x]],
              !.records = [x \in (DOMAIN @) \ S |-> @[x]]]

(***************************************************************************)
(* Malloc_allocator                                                        *)
(***************************************************************************)
\* std::malloc: null, or any region that is not live
malloc(g) == {Null} \cup (g.arena \ g.heap)

\* faulty variant: the test for a negative size is missing
Malloc_allocate_unchecked(a, g, s) ==
    IF s = 0 THEN {Out(a, g, Value(EmptyBlock))}
    ELSE { LET b == Block(s, p, uuid_)
           IN  IF empty(b) THEN Out(a, g, Unexpected("unknown"))
               ELSE Out(a, [g EXCEPT !.heap = @ \cup {p}], Value(b))
           : p \in malloc(g) }

Malloc_allocate(a, g, s) ==
    IF s < 0 THEN {Out(a, g, Unexpected("invalid_size"))}
    ELSE IF s = 0 THEN {Out(a, g, Value(EmptyBlock))}
    ELSE { LET b == Block(s, p, uuid_)
           IN  IF empty(b) THEN Out(a, g, Unexpected("unknown"))
               ELSE Out(a, [g EXCEPT !.heap = @ \cup {p}], Value(b))
           : p \in malloc(g) }

Malloc_deallocate(a, g, b) ==
    {DOut(a, Dead([g EXCEPT !.heap = @ \ {b.p_}], {b.p_}), EmptyBlock)}

Malloc_owns(a, g, b) == (b.p_ # Null) /\ (b.hint_ = uuid_)

(***************************************************************************)
(* Default_stacks_manager<Stacks_count, Buffer_size> (static state ptrs_)  *)
(***************************************************************************)
\* faulty variant: a stack whose room equals the request is passed over
stack_malloc_strict(ptrs, s) ==
    LET fit == {i \in Stacks : Buffer_size - (ptrs[i] - buffers_(i)) > s}
    IN  IF fit = {} THEN <<Null, ptrs>>
        ELSE LET i == Min(fit)
             IN  <<ptrs[i], [ptrs EXCEPT ![i] = @ + s]>>

\* returns <<pointer, ptrs_ afterwards>>
stack_malloc(ptrs, s) ==
    LET fit == {i \in Stacks : Buffer_size - (ptrs[i] - buffers_(i)) >= s}
    IN  IF fit = {} THEN <<Null, ptrs>>
        ELSE LET i == Min(fit)
             IN  <<ptrs[i], [ptrs EXCEPT ![i] = @ + s]>>

\* faulty variant: any block below the bump pointer retreats it
stack_free_any(ptrs, p, s) ==
    LET hit == {i \in Stacks : p >= buffers_(i) /\ p <= ptrs[i] - s}
    IN  IF hit = {} THEN ptrs
        ELSE [ptrs EXCEPT ![Min(hit)] = p]

\* returns ptrs_ afterwards
stack_free(ptrs, p, s) ==
    LET hit == {i \in Stacks : p = ptrs[i] - s}
    IN  IF hit = {} THEN ptrs
        ELSE [ptrs EXCEPT ![Min(hit)] = p]

\* faulty variant: the first byte of a buffer is left out of the range
stack_owns_strict(p) ==
    \E i \in Stacks : p > buffers_(i) /\ p < buffers_(i) + Buffer_size

stack_owns(p) ==
    \E i \in Stacks : p >= buffers_(i) /\ p < buffers_(i) + Buffer_size

(***************************************************************************)
(* Stack_allocator<Default_stacks_manager<...>>                            *)
(***************************************************************************)
align(s) == IF s % 2 = 0 THEN s ELSE s + 1

Stack_allocate(a, g, s) ==
    IF s < 0 THEN {Out(a, g, Unexpected("invalid_size"))}
    ELSE IF s = 0 THEN {Out(a, g, Value(EmptyBlock))}
    ELSE LET m == stack_malloc(g.ptrs_, align(s))
         IN  IF m[1] = Null THEN {Out(a, g, Unexpected("out_of_memory"))}
             ELSE {Out(a, [g EXCEPT !.ptrs_ = m[2]], Value(Block(s, m[1], hint_min)))}

\* faulty variant: the block is reset only when its memory was reclaimed
Stack_deallocate_keep(a, g, b) ==
    LET ptrs == stack_free(g.ptrs_, b.p_, b.s_)
    IN  {DOut(a, [g EXCEPT !.ptrs_ = ptrs], IF ptrs = g.ptrs_ THEN b ELSE EmptyBlock)}

\* the addresses between the bump pointers after and before a stack_free
Reclaimed(ptrs, ptrs2) ==
    UNION { ptrs2[i] .. (ptrs[i] - 1) : i \in Stacks }

Stack_deallocate(a, g, b) ==
    LET ptrs == stack_free(g.ptrs_, b.p_, b.s_)
    IN  {DOut(a, Dead([g EXCEPT !.ptrs_ = ptrs], Reclaimed(g.ptrs_, ptrs)), EmptyBlock)}

Stack_owns(a, g, b) == stack_owns(b.p_)

(***************************************************************************)
(* Free_list_allocator<Internal_allocator, Min_size, Max_size,             *)
(*                     Max_list_size>                                      *)
(* A cached Node {hint, next} is overlaid on the block's memory: nodes     *)
(* maps the node's address to the contents last written there.             *)
(***************************************************************************)
\* faulty variant: the inner allocator's block is returned as it is
Free_list_allocate_inner_size(t, a, g, s) ==
    IF s >= Min_size /\ s <= Max_size /\ a.list_size_ > 0 /\ a.root_ # Null
    THEN {Out([a EXCEPT !.root_ = g.nodes[a.root_].next, !.list_size_ = @ - 1],
              g,
              Value(Block(s, a.root_, g.nodes[a.root_].hint)))}
    ELSE { Out([a EXCEPT !.internal_ = o.a], o.g, o.r)
           : o \in allocate(InnerOf(t), a.internal_, g,
                            IF s < Min_size \/ s > Max_size THEN s ELSE Max_size) }

Free_list_allocate(t, a, g, s) ==
    IF s >= Min_size /\ s <= Max_size /\ a.list_size_ > 0 /\ a.root_ # Null
    THEN {Out([a EXCEPT !.root_ = g.nodes[a.root_].next, !.list_size_ = @ - 1],
              Dead(g, {a.root_}),
              Value(Block(s, a.root_, g.nodes[a.root_].hint)))}
    ELSE { IF ~o.r.ok
           THEN Out([a EXCEPT !.internal_ = o.a], o.g, o.r)
           ELSE Out([a EXCEPT !.internal_ = o.a], o.g,
                    Value(Block(s, o.r.b.p_, o.r.b.hint_)))
           : o \in allocate(InnerOf(t), a.internal_, g,
                            IF s < Min_size \/ s > Max_size THEN s ELSE Max_size) }

\* faulty variant: a block is cached only while the list is empty
Free_list_deallocate_single(t, a, g, b) ==
    IF b.s_ < Min_size \/ b.s_ > Max_size \/ a.list_size_ > 0
    THEN LET nb == Block(Max_size, b.p_, b.hint_)
         IN  { DOut([a EXCEPT !.internal_ = o.a], o.g, EmptyBlock)
               : o \in deallocate(InnerOf(t), a.internal_, g, nb) }
    ELSE {DOut([a EXCEPT !.root_ = b.p_, !.list_size_ = @ + 1],
               [g EXCEPT !.nodes = (b.p_ :> [hint |-> b.hint_, next |-> a.root_]) @@ @],
               EmptyBlock)}

Free_list_deallocate(t, a, g, b) ==
    IF b.s_ < Min_size \/ b.s_ > Max_size \/ a.list_size_ > Max_list_size
    THEN LET nb == Block(Max_size, b.p_, b.hint_)
         IN  { DOut([a EXCEPT !.internal_ = o.a], o.g, EmptyBlock)
               : o \in deallocate(InnerOf(t), a.internal_, g, nb) }
    ELSE {DOut([a EXCEPT !.root_ = b.p_, !.list_size_ = @ + 1],
               [g EXCEPT !.nodes = (b.p_ :> [hint |-> b.hint_, next |-> a.root_]) @@ @],
               EmptyBlock)}

Free_list_owns(t, a, g, b) ==
    (b.s_ >= Min_size /\ b.s_ <= Max_size) \/ owns(InnerOf(t), a.internal_, g, b)

\* the destructor's loop from iteration i on; log: the blocks released so far
RECURSIVE Free_list_release(_, _, _, _, _)
Free_list_release(t, a, g, i, log) ==
    IF i >= a.list_size_ THEN {[a |-> a, g |-> g, log |-> log]}
    ELSE LET n == a.root_
             b == Block(Max_size, n, g.nodes[n].hint)
         IN  UNION { Free_list_release(t, [a EXCEPT !.root_ = g.nodes[n].next,
                                                    !.internal_ = o.a],
                                       o.g, i + 1, Append(log, b))
                     : o \in deallocate(InnerOf(t), a.internal_, g, b) }

\* faulty variant: only the head of the list is released
Free_list_destroy_head(t, a, g) ==
    UNION { { Gone(d.g, x.log) : d \in destroy(InnerOf(t), x.a.internal_, x.g) }
            : x \in Free_list_release(t, a, g,
                                       IF a.list_size_ = 0 THEN 0 ELSE a.list_size_ - 1,
                                       <<>>) }

\* ~Free_list_allocator, then the destructor of the member internal_
Free_list_destroy(t, a, g) ==
    UNION { { Gone(d.g, x.log) : d \in destroy(InnerOf(t), x.a.internal_, x.g) }
            : x \in Free_list_release(t, a, g, 0, <<>>) }

\* copy constructor: the copy starts with an empty list
Free_list_copy(t, other, g) ==
    { <<[internal_ |-> c[1], root_ |-> Null, list_size_ |-> 0], c[2]>>
      : c \in copy(InnerOf(t), other.internal_, g) }

(***************************************************************************)
(* Stats_allocator<Internal_allocator, Number_of_records>                  *)
(* records maps the address of a Record to its contents (the time field,   *)
(* a value of the system clock, is not represented).                       *)
(***************************************************************************)
\* faulty variant: a full ring overwrites its newest record, not its oldest
add_record_newest(t, a, g, p, amt) ==
    IF a.number_of_records_ >= Number_of_records
    THEN LET r2 == [g.records EXCEPT ![a.tail_].request_address = p,
                                     ![a.tail_].amount = sizeof_Record + amt]
         IN  {<<[a EXCEPT !.total_allocated_ = @ + r2[a.tail_].amount],
                [g EXCEPT !.records = r2]>>}
    ELSE { LET a1 == [a EXCEPT !.internal_ = o.a]
               b1 == o.r.b
           IN  IF ~o.r.ok \/ empty(b1) THEN <<a1, o.g>>
               ELSE LET x    == b1.p_
                        rec  == [record_address |-> x, request_address |-> p,
                                 amount |-> b1.s_ + amt, next |-> Null]
                        recs == IF a1.root_ = Null THEN o.g.records
                                ELSE [o.g.records EXCEPT ![a1.tail_].next = x]
                    IN  <<[a1 EXCEPT !.root_ = IF a1.root_ = Null THEN x ELSE @,
                                     !.tail_ = x,
                                     !.total_allocated_ = @ + rec.amount,
                                     !.number_of_records_ = @ + 1],
                          [o.g EXCEPT !.records = (x :> rec) @@ recs]>>
           : o \in allocate(InnerOf(t), a.internal_, g, sizeof_Record) }

\* set of <<instance state, machine state>> after add_record(p, amt)
add_record(t, a, g, p, amt) ==
    IF a.number_of_records_ >= Number_of_records
    THEN LET r1    == [g.records EXCEPT ![a.tail_].next = a.root_]
             root2 == r1[a.root_].next
             tail2 == r1[a.tail_].next
             r2    == [r1 EXCEPT ![tail2].next = Null,
                                 ![tail2].request_address = p,
                                 ![tail2].amount = sizeof_Record + amt]
         IN  {<<[a EXCEPT !.root_ = root2, !.tail_ = tail2,
                          !.total_allocated_ = @ + r2[tail2].amount],
                [g EXCEPT !.records = r2]>>}
    ELSE { LET a1 == [a EXCEPT !.internal_ = o.a]
               b1 == o.r.b
           IN  IF ~o.r.ok \/ empty(b1) THEN <<a1, o.g>>
               ELSE LET x    == b1.p_
                        rec  == [record_address |-> x, request_address |-> p,
                                 amount |-> b1.s_ + amt, next |-> Null]
                        recs == IF a1.root_ = Null THEN o.g.records
                                ELSE [o.g.records EXCEPT ![a1.tail_].next = x]
                    IN  <<[a1 EXCEPT !.root_ = IF a1.root_ = Null THEN x ELSE @,
                                     !.tail_ = x,
                                     !.total_allocated_ = @ + rec.amount,
                                     !.number_of_records_ = @ + 1],
                          [o.g EXCEPT !.records = (x :> rec) @@ recs]>>
           : o \in allocate(InnerOf(t), a.internal_, g, sizeof_Record) }

\* faulty variant: an empty block is recorded like any other
Stats_allocate_records_empty(t, a, g, s) ==
    UNION { LET a1 == [a EXCEPT !.internal_ = o.a]
            IN  IF ~o.r.ok THEN {Out(a1, o.g, o.r)}
                ELSE { Out(x[1], x[2], Value(o.r.b))
                       : x \in add_record(t, a1, o.g, o.r.b.p_, o.r.b.s_) }
            : o \in allocate(InnerOf(t), a.internal_, g, s) }

Stats_allocate(t, a, g, s) ==
    UNION { LET a1 == [a EXCEPT !.internal_ = o.a]
            IN  IF ~o.r.ok THEN {Out(a1, o.g, o.r)}
                ELSE IF ~empty(o.r.b)
                     THEN { Out(x[1], x[2], Value(o.r.b))
                            : x \in add_record(t, a1, o.g, o.r.b.p_, o.r.b.s_) }
                     ELSE {Out(a1, o.g, Value(o.r.b))}
            : o \in allocate(InnerOf(t), a.internal_, g, s) }

\* faulty variant: a deallocation is recorded with the sign of an allocation
Stats_deallocate_plus(t, a, g, b) ==
    LET bc == b
    IN  UNION { LET a1 == [a EXCEPT !.internal_ = o.a]
                IN  IF empty(o.b)
                    THEN { DOut(x[1], x[2], o.b)
                           : x \in add_record(t, a1, o.g, bc.p_, bc.s_) }
                    ELSE {DOut(a1, o.g, o.b)}
                : o \in deallocate(InnerOf(t), a.internal_, g, b) }

Stats_deallocate(t, a, g, b) ==
    LET bc == b
    IN  UNION { LET a1 == [a EXCEPT !.internal_ = o.a]
                IN  IF empty(o.b)
                    THEN { DOut(x[1], x[2], o.b)
                           : x \in add_record(t, a1, o.g, bc.p_, -bc.s_) }
                    ELSE {DOut(a1, o.g, o.b)}
                : o \in deallocate(InnerOf(t), a.internal_, g, b) }

Stats_owns(t, a, g, b) == owns(InnerOf(t), a.internal_, g, b)

\* the destructor's loop from record c on; log: the blocks released so far
RECURSIVE Stats_release(_, _, _, _, _)
Stats_release(t, a, g, c, log) ==
    IF c = Null THEN {[a |-> a, g |-> g, log |-> log]}
    ELSE LET n == g.records[c].next
             b == Block(sizeof_Record, g.records[c].record_address, hint_min)
         IN  UNION { Stats_release(t, [a EXCEPT !.internal_ = o.a], o.g, n,
                                   Append(log, b))
                     : o \in deallocate(InnerOf(t), a.internal_, g, b) }

\* ~Stats_allocator, then the destructor of the member internal_
Stats_destroy(t, a, g) ==
    UNION { { Gone(d.g, x.log) : d \in destroy(InnerOf(t), x.a.internal_, x.g) }
            : x \in Stats_release(t, a, g, a.root_, <<>>) }

\* the loop of the copy operations: the records of the source from r on are
\* added to the target a; set of <<instance state, machine state>>
RECURSIVE Stats_replay(_, _, _, _)
Stats_replay(t, a, g, r) ==
    IF r = Null THEN {<<a, g>>}
    ELSE UNION { Stats_replay(t, x[1], x[2], x[2].records[r].next)
                 : x \in add_record(t, a, g, g.records[r].request_address,
                                     g.records[r].amount - sizeof_Record) }

\* copy constructor
Stats_copy(t, other, g) ==
    UNION { Stats_replay(t, [create(t) EXCEPT !.internal_ = c[1]], c[2], other.root_)
            : c \in copy(InnerOf(t), other.internal_, g) }

\* copy assignment: the target a keeps its records and takes the source's;
\* the operator returns by value, a temporary that is destroyed at once
Stats_assign(t, a, other, g) ==
    UNION { UNION { UNION { { <<x[1], d.g>> : d \in Stats_destroy(t, tmp[1], tmp[2]) }
                            : tmp \in Stats_copy(t, x[1], x[2]) }
                    : x \in Stats_replay(t, [a EXCEPT !.internal_ = c[1]], c[2],
                                          other.root_) }
            : c \in copy(InnerOf(t), other.internal_, g) }

(***************************************************************************)
(* Shared_allocator<Internal_allocator, id>: the instance has no members,  *)
(* the static allocator_ of its type lives in the machine state.           *)
(***************************************************************************)
\* faulty variant: every call works on an allocator of its own
Shared_allocate_own(t, a, g, s) ==
    { Out(a, o.g, o.r) : o \in allocate(InnerOf(t), create(InnerOf(t)), g, s) }

Shared_allocate(t, a, g, s) ==
    { Out(a, [o.g EXCEPT !.allocator_[t] = o.a], o.r)
      : o \in allocate(InnerOf(t), g.allocator_[t], g, s) }

Shared_deallocate(t, a, g, b) ==
    { DOut(a, [o.g EXCEPT !.allocator_[t] = o.a], o.b)
      : o \in deallocate(InnerOf(t), g.allocator_[t], g, b) }

Shared_owns(t, a, g, b) == owns(InnerOf(t), g.allocator_[t], g, b)

(***************************************************************************)
(* Fallback_allocator<Primary, Fallback>                                   *)
(***************************************************************************)
\* faulty variant: the error of Primary is returned as it is
Fallback_allocate_primary_only(t, a, g, s) ==
    { Out([a EXCEPT !.primary_ = o.a], o.g, o.r)
      : o \in allocate(PrimaryOf(t), a.primary_, g, s) }

Fallback_allocate(t, a, g, s) ==
    UNION { IF o.r.ok
            THEN {Out([a EXCEPT !.primary_ = o.a], o.g, o.r)}
            ELSE { Out([a EXCEPT !.primary_ = o.a, !.fallback_ = o2.a], o2.g, o2.r)
                   : o2 \in allocate(FallbackOf(t), a.fallback_, o.g, s) }
            : o \in allocate(PrimaryOf(t), a.primary_, g, s) }

\* faulty variant: a block Primary does not own is dropped
Fallback_deallocate_primary_only(t, a, g, b) ==
    IF owns(PrimaryOf(t), a.primary_, g, b)
    THEN { DOut([a EXCEPT !.primary_ = o.a], o.g, o.b)
           : o \in deallocate(PrimaryOf(t), a.primary_, g, b) }
    ELSE {DOut(a, g, b)}

Fallback_deallocate(t, a, g, b) ==
    IF owns(PrimaryOf(t), a.primary_, g, b)
    THEN { DOut([a EXCEPT !.primary_ = o.a], o.g, o.b)
           : o \in deallocate(PrimaryOf(t), a.primary_, g, b) }
    ELSE IF owns(FallbackOf(t), a.fallback_, g, b)
         THEN { DOut([a EXCEPT !.fallback_ = o.a], o.g, o.b)
                : o \in deallocate(FallbackOf(t), a.fallback_, g, b) }
         ELSE {DOut(a, g, b)}

Fallback_owns(t, a, g, b) ==
    owns(PrimaryOf(t), a.primary_, g, b) \/ owns(FallbackOf(t), a.fallback_, g, b)

(***************************************************************************)
(* Allocators API: allocate / deallocate / owns on an allocator of type t  *)
(***************************************************************************)
allocate(t, a, g, s) ==
    CASE Kind(t) = "Malloc"    -> Malloc_allocate(a, g, s)
      [] Kind(t) = "Stack"     -> Stack_allocate(a, g, s)
      [] Kind(t) = "Free_list" -> Free_list_allocate(t, a, g, s)
      [] Kind(t) = "Stats"     -> Stats_allocate(t, a, g, s)
      [] Kind(t) = "Shared"    -> Shared_allocate(t, a, g, s)
      [] Kind(t) = "Fallback"  -> Fallback_allocate(t, a, g, s)

deallocate(t, a, g, b) ==
    CASE Kind(t) = "Malloc"    -> Malloc_deallocate(a, g, b)
      [] Kind(t) = "Stack"     -> Stack_deallocate(a, g, b)
      [] Kind(t) = "Free_list" -> Free_list_deallocate(t, a, g, b)
      [] Kind(t) = "Stats"     -> Stats_deallocate(t, a, g, b)
      [] Kind(t) = "Shared"    -> Shared_deallocate(t, a, g, b)
      [] Kind(t) = "Fallback"  -> Fallback_deallocate(t, a, g, b)

owns(t, a, g, b) ==
    CASE Kind(t) = "Malloc"    -> Malloc_owns(a, g, b)
      [] Kind(t) = "Stack"     -> Stack_owns(a, g, b)
      [] Kind(t) = "Free_list" -> Free_list_owns(t, a, g, b)
      [] Kind(t) = "Stats"     -> Stats_owns(t, a, g, b)
      [] Kind(t) = "Shared"    -> Shared_owns(t, a, g, b)
      [] Kind(t) = "Fallback"  -> Fallback_owns(t, a, g, b)

\* destructor of an allocator of type t; a Shared_allocator has only the
\* static allocator_, which outlives its instances
destroy(t, a, g) ==
    CASE Kind(t) \in {"Malloc", "Stack", "Shared"} -> {Gone(g, <<>>)}
      [] Kind(t) = "Free_list" -> Free_list_destroy(t, a, g)
      [] Kind(t) = "Stats"     -> Stats_destroy(t, a, g)
      [] Kind(t) = "Fallback"  ->
            UNION { { Gone(d2.g, <<>>) : d2 \in destroy(PrimaryOf(t), a.primary_, d.g) }
                    : d \in destroy(FallbackOf(t), a.fallback_, g) }

\* copy constructor of an allocator of type t: set of <<copy, machine state>>
copy(t, other, g) ==
    CASE Kind(t) \in {"Malloc", "Stack", "Shared"} -> {<<other, g>>}
      [] Kind(t) = "Free_list" -> Free_list_copy(t, other, g)
      [] Kind(t) = "Stats"     -> Stats_copy(t, other, g)
      [] Kind(t) = "Fallback"  ->
            UNION { { <<[primary_ |-> c1[1], fallback_ |-> c2[1]], c2[2]>>
                      : c2 \in copy(FallbackOf(t), other.fallback_, c1[2]) }
                    : c1 \in copy(PrimaryOf(t), other.primary_, g) }

(***************************************************************************)
(* pointers.h: Shared_ptr<T, Internal_allocator> and Weak_ptr<T,           *)
(* Internal_allocator>.  A pointer object is its members cb_ and ptr_ (its *)
(* allocator_ is a default-constructed allocator of type t, which has no   *)
(* state for the types used here).  The memory state m the operations work *)
(* on:  g     the machine state of the allocators,                         *)
(*      cbs   the Control_block objects alive, by address (use_count and   *)
(*            weak_count, and obj: the pointee the block was made for),    *)
(*      objs  the T objects alive, by address, each with the control       *)
(*            block that was made for it,                                  *)
(*      ub    "none", or the undefined behaviour the program has run into: *)
(*            the use of a control block that is not alive, the            *)
(*            destruction of an object that is not alive, the release of   *)
(*            memory that is not allocated.                                *)
(* An operation that allocates or releases yields the set of its outcomes. *)
(***************************************************************************)
sizeof_T == 4                 \* MEMOC_SSIZEOF(T) for the pointee type int
sizeof_Control_block == 16    \* MEMOC_SSIZEOF(Control_block): two std::int64_t

\* Shared_ptr{} / Weak_ptr{}: the empty pointer
Empty_ptr == [cb_ |-> Null, ptr_ |-> Null]

Defined(m) == m.ub = "none"

Undefined(m, what) == [m EXCEPT !.ub = what]

\* allocator_.allocate(size).value().data(): the outcomes in which the
\* allocation succeeds (value() of an error does not return)
Obtain(t, m, size) ==
    { <<o.r.b.p_, [m EXCEPT !.g = o.g]>>
      : o \in { o \in allocate(t, create(t), m.g, size) : o.r.ok /\ ~empty(o.r.b) } }

\* the memory at p is allocated
Allocated(g, p) == p \in g.heap \/ stack_owns(p)

\* Block<void> b = { size, p }; allocator_.deallocate(b)
Release(t, m, size, p) ==
    IF ~Defined(m) THEN {m}
    ELSE IF ~Allocated(m.g, p) THEN {Undefined(m, "memory not allocated")}
    ELSE { [m EXCEPT !.g = o.g]
           : o \in deallocate(t, create(t), m.g, Block(size, p, hint_min)) }

\* destruct_at<T>(p)
destruct_at_T(m, p) ==
    IF ~Defined(m) THEN m
    ELSE IF p \notin DOMAIN m.objs THEN Undefined(m, "object not alive")
    ELSE [m EXCEPT !.objs = [x \in (DOMAIN @) \ {p} |-> @[x]]]

\* destruct_at<Control_block>(c), c a control block that is alive
destruct_at_Control_block(m, c) ==
    [m EXCEPT !.cbs = [x \in (DOMAIN @) \ {c} |-> @[x]]]

\* construct_at<T>(p) on memory obtained from the allocator
NewObject(t, m) ==
    { <<x[1], [x[2] EXCEPT !.objs = (x[1] :> [cb |-> Null]) @@ @]>>
      : x \in Obtain(t, m, sizeof_T) }

\* Shared_ptr::remove_reference: set of <<the pointer, the memory>> afterwards
Shared_remove_reference(t, sp, m) ==
    IF ~Defined(m) THEN {<<sp, m>>}
    ELSE IF sp.ptr_ = Null /\ sp.cb_ = Null THEN {<<sp, m>>}
    ELSE IF sp.cb_ \notin DOMAIN m.cbs
    THEN {<<sp, Undefined(m, "control block not alive")>>}
    ELSE LET c  == sp.cb_
             m1 == IF m.cbs[c].use_count > 0
                   THEN [m EXCEPT !.cbs[c].use_count = @ - 1] ELSE m
             s2 == IF m1.cbs[c].use_count = 0 /\ sp.ptr_ # Null
                   THEN { <<[sp EXCEPT !.ptr_ = Null], m2>>
                          : m2 \in Release(t, destruct_at_T(m1, sp.ptr_), sizeof_T,
                                           sp.ptr_) }
                   ELSE {<<sp, m1>>}
             s3(x) == IF ~Defined(x[2]) THEN {x}
                      ELSE IF c \notin DOMAIN x[2].cbs
                      THEN {<<x[1], Undefined(x[2], "control block not alive")>>}
                      ELSE IF x[2].cbs[c].use_count = 0 /\ x[2].cbs[c].weak_count = 0
                      THEN { <<[x[1] EXCEPT !.cb_ = Null], m3>>
                             : m3 \in Release(t, destruct_at_Control_block(x[2], c),
                                              sizeof_Control_block, c) }
                      ELSE {x}
         IN  UNION { s3(x) : x \in s2 }

\* ++cb_->use_count / ++cb_->weak_count
Increment(m, c, field) ==
    IF ~Defined(m) THEN m
    ELSE IF c \notin DOMAIN m.cbs THEN Undefined(m, "control block not alive")
    ELSE IF field = "use_count" THEN [m EXCEPT !.cbs[c].use_count = @ + 1]
    ELSE [m EXCEPT !.cbs[c].weak_count = @ + 1]

\* the control block that Shared_ptr(T* ptr) and reset(ptr) make, ptr not null
New_control_block(t, ptr, m) ==
    { <<[cb_ |-> x[1], ptr_ |-> ptr],
        [x[2] EXCEPT !.cbs = (x[1] :> [use_count |-> 1, weak_count |-> 0, obj |-> ptr])
                                @@ @,
                     !.objs = IF ptr \in DOMAIN @
                              THEN [@ EXCEPT ![ptr].cb = x[1]] ELSE @]>>
      : x \in Obtain(t, m, sizeof_Control_block) }

\* explicit Shared_ptr(T* ptr)
Shared_ptr_ctor(t, ptr, m) ==
    IF ptr = Null THEN {<<Empty_ptr, m>>} ELSE New_control_block(t, ptr, m)

\* make_shared<T, Internal_allocator>(args...)
make_shared(t, m) ==
    UNION { Shared_ptr_ctor(t, x[1], x[2]) : x \in NewObject(t, m) }

\* Shared_ptr(const Shared_ptr<T_o>& other, T* ptr)
Shared_ptr_alias(other, ptr, m) ==
    <<[cb_ |-> other.cb_, ptr_ |-> ptr],
      IF other.ptr_ # Null /\ other.cb_ # Null
      THEN Increment(m, other.cb_, "use_count") ELSE m>>

\* faulty variant: a copy does not count
Shared_ptr_copy_uncounted(other, m) == <<[cb_ |-> other.cb_, ptr_ |-> other.ptr_], m>>

\* Shared_ptr(const Shared_ptr& other)
Shared_ptr_copy(other, m) ==
    <<[cb_ |-> other.cb_, ptr_ |-> other.ptr_],
      IF other.ptr_ # Null /\ other.cb_ # Null
      THEN Increment(m, other.cb_, "use_count") ELSE m>>

\* operator=(const Shared_ptr& other); self: this == &other
Shared_ptr_assign(t, this, other, self, m) ==
    IF self THEN {<<this, m>>}
    ELSE { <<other, IF other.ptr_ # Null /\ other.cb_ # Null
                    THEN Increment(x[2], other.cb_, "use_count") ELSE x[2]>>
           : x \in Shared_remove_reference(t, this, m) }

\* Shared_ptr(Shared_ptr<T_o>&& other, T* ptr): <<the new pointer, other afterwards>>
Shared_ptr_move_alias(other, ptr) == <<[cb_ |-> other.cb_, ptr_ |-> ptr], Empty_ptr>>

\* Shared_ptr(Shared_ptr&& other): <<the new pointer, other afterwards>>
Shared_ptr_move(other) == <<[cb_ |-> other.cb_, ptr_ |-> other.ptr_], Empty_ptr>>

\* operator=(Shared_ptr&& other): set of <<this, other, the memory>> afterwards
Shared_ptr_move_assign(t, this, other, self, m) ==
    IF self THEN {<<this, other, m>>}
    ELSE { <<other, Empty_ptr, x[2]>> : x \in Shared_remove_reference(t, this, m) }

\* reset()
Shared_ptr_reset(t, this, m) ==
    { <<Empty_ptr, x[2]>> : x \in Shared_remove_reference(t, this, m) }

\* reset(T_o* ptr)
Shared_ptr_reset_ptr(t, this, ptr, m) ==
    UNION { IF ~Defined(x[2]) THEN {x}
            ELSE IF ptr # Null THEN New_control_block(t, ptr, x[2])
            ELSE {<<Empty_ptr, x[2]>>}
            : x \in Shared_remove_reference(t, this, m) }

\* static_pointer_cast, const_pointer_cast, reinterpret_pointer_cast of a
\* const Shared_ptr&: the pointer value is other.get()
pointer_cast(other, m) == Shared_ptr_alias(other, other.ptr_, m)

\* the same of a Shared_ptr&&: <<the new pointer, other afterwards>>
pointer_cast_move(other) == Shared_ptr_move_alias(other, other.ptr_)

\* dynamic_pointer_cast of a const Shared_ptr&; is_a: the object is a T
dynamic_pointer_cast(other, is_a, m) ==
    IF is_a /\ other.ptr_ # Null THEN Shared_ptr_alias(other, other.ptr_, m)
    ELSE <<Empty_ptr, m>>

\* dynamic_pointer_cast of a Shared_ptr&&: <<the new pointer, other afterwards>>
dynamic_pointer_cast_move(other, is_a) ==
    IF is_a /\ other.ptr_ # Null THEN Shared_ptr_move_alias(other, other.ptr_)
    ELSE <<Empty_ptr, other>>

\* use_count() of a Shared_ptr or of a Weak_ptr: cb_ ? cb_->use_count : 0
use_count(p, m) == IF p.cb_ # Null THEN m.cbs[p.cb_].use_count ELSE 0

\* Weak_ptr::expired()
expired(p, m) == use_count(p, m) = 0

\* Weak_ptr::remove_reference: set of <<the pointer, the memory>> afterwards
Weak_remove_reference(t, wp, m) ==
    IF ~Defined(m) THEN {<<wp, m>>}
    ELSE IF wp.cb_ # Null /\ wp.cb_ \notin DOMAIN m.cbs
    THEN {<<wp, Undefined(m, "control block not alive")>>}
    ELSE LET w1 == IF wp.cb_ # Null /\ m.cbs[wp.cb_].use_count = 0
                   THEN [wp EXCEPT !.ptr_ = Null] ELSE wp
             c  == w1.cb_
         IN  IF w1.ptr_ = Null /\ c = Null THEN {<<w1, m>>}
             ELSE IF c \notin DOMAIN m.cbs
             THEN {<<w1, Undefined(m, "control block not alive")>>}
             ELSE LET m1 == IF m.cbs[c].weak_count > 0
                            THEN [m EXCEPT !.cbs[c].weak_count = @ - 1] ELSE m
                  IN  IF m1.cbs[c].use_count = 0 /\ m1.cbs[c].weak_count = 0
                      THEN { <<[w1 EXCEPT !.cb_ = Null], m3>>
                             : m3 \in Release(t, destruct_at_Control_block(m1, c),
                                              sizeof_Control_block, c) }
                      ELSE {<<w1, m1>>}

\* Weak_ptr(const Shared_ptr& other) and Weak_ptr(const Weak_ptr& other)
Weak_ptr_copy(other, m) ==
    <<[cb_ |-> other.cb_, ptr_ |-> other.ptr_],
      IF other.cb_ # Null THEN Increment(m, other.cb_, "weak_count") ELSE m>>

\* operator=(const Shared_ptr& other): set of <<this, the memory>> afterwards
Weak_ptr_assign_shared(t, this, other, m) ==
    {<<[cb_ |-> other.cb_, ptr_ |-> other.ptr_],
       IF other.cb_ # Null THEN Increment(m, other.cb_, "weak_count") ELSE m>>}

\* operator=(const Weak_ptr& other); self: this == &other
Weak_ptr_assign(t, this, other, self, m) ==
    IF self THEN {<<this, m>>}
    ELSE { <<other, IF other.cb_ # Null
                    THEN Increment(x[2], other.cb_, "weak_count") ELSE x[2]>>
           : x \in Weak_remove_reference(t, this, m) }

\* Weak_ptr(Weak_ptr&& other): <<the new pointer, other afterwards>>
Weak_ptr_move(other) == <<[cb_ |-> other.cb_, ptr_ |-> other.ptr_], Empty_ptr>>

\* operator=(Weak_ptr&& other): set of <<this, other, the memory>> afterwards
Weak_ptr_move_assign(t, this, other, self, m) ==
    IF self THEN {<<this, other, m>>}
    ELSE { <<other, Empty_ptr, x[2]>> : x \in Weak_remove_reference(t, this, m) }

\* reset()
Weak_ptr_reset(t, this, m) ==
    { <<Empty_ptr, x[2]>> : x \in Weak_remove_reference(t, this, m) }

\* lock(): <<the Shared_ptr returned, the memory afterwards>>
Weak_ptr_lock(this, m) ==
    IF this.cb_ = Null THEN <<Empty_ptr, m>>
    ELSE <<[cb_ |-> this.cb_, ptr_ |-> this.ptr_],
           IF this.ptr_ # Null THEN Increment(m, this.cb_, "use_count") ELSE m>>

(***************************************************************************)
(* The state machine: one allocator instance of type type_ and a caller    *)
(* that allocates, keeps the blocks it was given, and gives them back.     *)
(***************************************************************************)
VARIABLES
    type_,      \* the allocator type of the instance
    inst,       \* the instance's data members
    alive,      \* the instance has been constructed and not yet destroyed
    copy_,      \* a copy of the instance, if the caller has made one
    ptrs_,      \* Default_stacks_manager::ptrs_ (static)
    heap,       \* regions obtained from std::malloc and not yet freed
    nodes,      \* memory contents: Free_list Node objects by address
    records,    \* memory contents: Stats Record objects by address
    shared_,    \* Shared_allocator::allocator_ (static), by type
    live,       \* the caller's blocks, in allocation order
    by,         \* for each of them, the handle it was allocated through
    last,       \* the call the caller made last and what it got back
    scen,       \* observer of call sequences "allocate k, free them, allocate k"
    hist        \* the events a Stats instance recorded: the latest, and how many

vars == <<type_, inst, alive, copy_, ptrs_, heap, nodes, records, shared_,
          live, by, last, scen, hist>>

\* the state of the programs that work on blocks of a caller's array (they
\* use no allocator; an allocator run leaves them as they are)
VARIABLES
    mem,        \* the bytes of the caller's array, by address
    bop         \* the block operation the caller made last and its result

blockVars == <<mem, bop>>

\* the state of the programs that work with Shared_ptr and Weak_ptr objects
VARIABLES
    sp,         \* the program's Shared_ptr objects sp1, sp2, ...: cb_ and ptr_
    wp,         \* the program's Weak_ptr objects wp1, wp2, ...: cb_ and ptr_
    made,       \* the pointer objects constructed and not yet destroyed
    cbs,        \* memory contents: the Control_block objects alive, by address
    objs,       \* memory contents: the pointees alive, by address
    ub,         \* "none", or the undefined behaviour the program has run into
    steps,      \* the operations the program has made
    up          \* the program's Unique_ptr objects up1, up2, ...: ptr_

ptrVars == <<sp, wp, made, cbs, objs, ub, steps, up>>

\* the state of the programs that work with buffers
VARIABLES
    buf         \* the program's buffer objects, their elements, its last call

bufVars == <<buf>>

\* the state of the program that compares a Stats_allocator with its Inner
VARIABLES
    ref         \* the run of Inner alone: its bump pointers, and whether
                \* every result so far was the one the Stats_allocator gave

refVars == <<ref>>

\* what a run of the allocator program does not touch
others == <<blockVars, ptrVars, bufVars, refVars>>

\* the machine state the allocator operations work on
G == [ptrs_ |-> ptrs_, heap |-> heap, nodes |-> nodes, records |-> records,
      allocator_ |-> shared_, arena |-> HeapAddrs(type_)]

\* sizes the caller asks for
Sizes == {-1, 0, Min_size - 1, Min_size, Max_size, Buffer_size + 1}

\* blocks the caller holds at once: one more than a free list is meant to
\* cache; one less where the allocator keeps records of its own
LiveCap ==
    MaxLive + (CASE type_ = "Shared<Free_list<Malloc>>" -> Max_list_size - 1
                 [] Kind(type_) = "Stats" -> -1
                 [] OTHER -> 0)

\* the unbounded counter of a Stats instance stays within the model's bound
Bounded(a) ==
    (Kind(type_) = "Stats")
        => (a.total_allocated_ <= MaxTotal /\ a.total_allocated_ >= -MaxTotal)

\* the allocator objects calls go through: 0 is the instance, h > 0 a peer
Handles == 0 .. Len(Peers(type_))

HandleType(h) == IF h = 0 THEN type_ ELSE Peers(type_)[h]

HandleState(h) == IF h = 0 THEN inst ELSE create(HandleType(h))

Call(op, n, r, arg, b) ==
    [op |-> op, n |-> n, r |-> r, arg |-> arg, b |-> b,
     via |-> 0,      \* the handle the call went through
     by  |-> 0,      \* deallocate: the handle arg had been allocated through
     log |-> <<>>]   \* destroy: the blocks handed to Inner, in order

Remove(seq, i) == [j \in 1 .. (Len(seq) - 1) |-> IF j < i THEN seq[j] ELSE seq[j + 1]]

Range(seq) == {seq[i] : i \in 1 .. Len(seq)}

(***************************************************************************)
(* The observer.  It follows a run of successful allocate(size) calls      *)
(* (phase "alloc", pointers in run), then the deallocation of exactly      *)
(* those blocks (phase "free", pointers in freed, in the order freed),     *)
(* then as many allocate calls (phase "realloc", outcomes in got).  Any    *)
(* other call ends the sequence.  It may start at any successful call.     *)
(***************************************************************************)
Idle == [ph |-> "idle", size |-> 0, run |-> <<>>, left |-> <<>>,
         freed |-> <<>>, got |-> <<>>]

\* the observer follows the allocators that hand memory out again
Watched == type_ \in {"Stack", "Free_list<Malloc>", "Shared<Stack>"}

ObserveAllocate(sc, n, r, same, start) ==
    IF sc.ph = "realloc" /\ n > 0 /\ Len(sc.got) < Len(sc.run)
    THEN [sc EXCEPT !.got = Append(@, [n |-> n, ok |-> r.ok, p |-> r.b.p_,
                                       s |-> r.b.s_, same |-> same])]
    ELSE IF sc.ph = "alloc" /\ n = sc.size /\ r.ok
    THEN [sc EXCEPT !.run = Append(@, r.b.p_), !.left = Append(@, r.b.p_)]
    ELSE IF start /\ r.ok /\ ~empty(r.b)
    THEN [Idle EXCEPT !.ph = "alloc", !.size = n,
                      !.run = <<r.b.p_>>, !.left = <<r.b.p_>>]
    ELSE Idle

ObserveDeallocate(sc, b) ==
    IF sc.ph \in {"alloc", "free"} /\ b.p_ \in Range(sc.left)
    THEN LET i  == Min({j \in 1 .. Len(sc.left) : sc.left[j] = b.p_})
             l2 == Remove(sc.left, i)
         IN  [sc EXCEPT !.left = l2, !.freed = Append(@, b.p_),
                        !.ph = IF l2 = <<>> THEN "realloc" ELSE "free"]
    ELSE Idle

(***************************************************************************)
(* The history of a Stats instance: the events its add_record stored, as   *)
(* the caller knows them (address and size of the block of the call).      *)
(***************************************************************************)
\* add_record, once called, stores the event: in a new record (the ring
\* grows) or, the ring being full, in the oldest one
Recorded(a, a2) ==
    \/ a2.number_of_records_ > a.number_of_records_
    \/ a.number_of_records_ >= Number_of_records

Event(p, amount) == [p |-> p, amount |-> amount]

NoEvents == [events |-> <<>>, count |-> 0, sum |-> 0]

\* the history after one more event: it keeps as many events as the ring has
\* records, oldest first, counts the events up to one more than that, and
\* adds up the amounts of all of them
Record(h, e) ==
    LET es == Append(h.events, e)
    IN  [events |-> IF Len(es) > Number_of_records THEN Tail(es) ELSE es,
         count  |-> IF h.count > Number_of_records THEN h.count ELSE h.count + 1,
         sum    |-> h.sum + e.amount]

\* no block operation has been made
NoBlockOp == [op |-> "none"]

\* the allocator program with an allocator of one of the types in ts
AllocInit(ts) ==
    /\ type_ \in ts
    /\ inst = create(type_)
    /\ alive = TRUE
    /\ copy_ = <<>>
    /\ ptrs_ = [i \in Stacks |-> buffers_(i)]
    /\ heap = {}
    /\ nodes = [x \in {} |-> Null]
    /\ records = [x \in {} |-> Null]
    /\ shared_ = [t \in SharedTypes |-> create(InnerOf(t))]
    /\ live = <<>>
    /\ by = <<>>
    /\ last = Call("create", 0, Value(EmptyBlock), EmptyBlock, EmptyBlock)
    /\ scen = Idle
    /\ hist = NoEvents

\* the pointer objects of the program
SharedNames == <<"sp1", "sp2", "sp3">>

WeakNames == <<"wp1", "wp2">>

SharedSlots == {SharedNames[i] : i \in 1 .. Len(SharedNames)}

WeakSlots == {WeakNames[i] : i \in 1 .. Len(WeakNames)}

UniqueNames == <<"up1", "up2">>

UniqueSlots == {UniqueNames[i] : i \in 1 .. Len(UniqueNames)}

\* the buffer program's last call: none yet
NoCall == [op |-> "none"]

\* the run of Inner alone before any call
NoRef == [ptrs_ |-> [i \in Stacks |-> buffers_(i)], same |-> TRUE]

\* no buffer has been constructed
NoBuffers ==
    [live  |-> [x \in {} |-> Null],    \* the buffers alive, by name: type and object
     elems |-> {},                     \* the elements alive in them
     ub    |-> "none",                 \* the undefined behaviour met
     last  |-> NoCall,                 \* the last call and its outcome
     steps |-> 0]                      \* the operations made

\* no pointer object has been constructed
NoPointers ==
    /\ sp = [x \in SharedSlots |-> Empty_ptr]
    /\ wp = [x \in WeakSlots |-> Empty_ptr]
    /\ made = {}
    /\ cbs = [x \in {} |-> Null]
    /\ objs = [x \in {} |-> Null]
    /\ ub = "none"
    /\ steps = 0
    /\ up = [x \in UniqueSlots |-> Null]

Init ==
    /\ AllocInit(Types)
    /\ mem = <<>>
    /\ bop = NoBlockOp
    /\ NoPointers
    /\ buf = NoBuffers
    /\ ref = NoRef

\* the machine state after a call
Store(g) ==
    /\ ptrs_' = g.ptrs_
    /\ heap' = g.heap
    /\ nodes' = g.nodes
    /\ records' = g.records
    /\ shared_' = g.allocator_
    /\ UNCHANGED type_

\* the state after a call through handle h
Commit(h, o) ==
    /\ inst' = IF h = 0 THEN o.a ELSE inst
    /\ Store(o.g)
    /\ UNCHANGED <<alive, copy_>>

\* Block<void> b = allocator.allocate(n)
Allocate ==
    /\ alive /\ copy_ = <<>>
    /\ \E h \in Handles : \E n \in Sizes :
       \E o \in allocate(HandleType(h), HandleState(h), G, n) :
        /\ (o.r.ok /\ ~empty(o.r.b)) => Len(live) < LiveCap
        /\ h = 0 => Bounded(o.a)
        /\ Commit(h, o)
        /\ live' = IF o.r.ok /\ ~empty(o.r.b) THEN Append(live, o.r.b) ELSE live
        /\ by' = IF o.r.ok /\ ~empty(o.r.b) THEN Append(by, h) ELSE by
        /\ last' = [Call("allocate", n, o.r, EmptyBlock, EmptyBlock) EXCEPT !.via = h]
        /\ \E start \in (IF Watched THEN BOOLEAN ELSE {FALSE}) :
              scen' = ObserveAllocate(scen, n, o.r,
                                      o.g.heap = heap /\ o.g.ptrs_ = ptrs_, start)
        /\ hist' = IF /\ Kind(type_) = "Stats" /\ o.r.ok /\ ~empty(o.r.b)
                      /\ Recorded(inst, o.a)
                   THEN Record(hist, Event(o.r.b.p_, sizeof_Record + n))
                   ELSE hist
    /\ UNCHANGED others

\* allocator.deallocate(b) for a block b the caller holds
Deallocate ==
    /\ alive /\ copy_ = <<>>
    /\ \E h \in Handles : \E i \in 1 .. Len(live) :
       \E o \in deallocate(HandleType(h), HandleState(h), G, live[i]) :
        /\ h = 0 => Bounded(o.a)
        /\ Commit(h, o)
        /\ live' = Remove(live, i)
        /\ by' = Remove(by, i)
        /\ last' = [Call("deallocate", 0, Value(EmptyBlock), live[i], o.b)
                      EXCEPT !.via = h, !.by = by[i]]
        /\ scen' = ObserveDeallocate(scen, live[i])
        /\ hist' = IF Kind(type_) = "Stats" /\ Recorded(inst, o.a)
                   THEN Record(hist, Event(live[i].p_, sizeof_Record - live[i].s_))
                   ELSE hist
    /\ UNCHANGED others

\* allocator.deallocate(b) for an empty block b
DeallocateEmpty ==
    /\ alive /\ copy_ = <<>>
    /\ \E o \in deallocate(type_, inst, G, EmptyBlock) :
        /\ Bounded(o.a)
        /\ Commit(0, o)
        /\ UNCHANGED <<live, by>>
        /\ last' = Call("deallocate", 0, Value(EmptyBlock), EmptyBlock, o.b)
        /\ scen' = Idle
        /\ hist' = IF Kind(type_) = "Stats" /\ Recorded(inst, o.a)
                   THEN Record(hist, Event(Null, sizeof_Record))
                   ELSE hist
    /\ UNCHANGED others

\* the instance goes out of scope
Destroy ==
    /\ alive /\ copy_ = <<>>
    /\ \E d \in destroy(type_, inst, G) :
        /\ Store(d.g)
        /\ alive' = FALSE
        /\ last' = [Call("destroy", 0, Value(EmptyBlock), EmptyBlock, EmptyBlock)
                      EXCEPT !.log = d.log]
    /\ scen' = Idle
    /\ UNCHANGED <<inst, copy_, live, by, hist>>
    /\ UNCHANGED others

\* a new instance is default-constructed; the static state stays as it is
Construct ==
    /\ ~alive
    /\ alive' = TRUE
    /\ inst' = create(type_)
    /\ hist' = NoEvents
    /\ last' = Call("create", 0, Value(EmptyBlock), EmptyBlock, EmptyBlock)
    /\ UNCHANGED <<type_, copy_, ptrs_, heap, nodes, records, shared_, live, by,
                   scen>>
    /\ UNCHANGED others

\* the caller copies allocators that keep statistics, and makes no other
\* call on the instance while it has the copy
Copyable == Kind(type_) = "Stats"

\* Allocator copy{ allocator }
CopyConstruct ==
    /\ alive /\ Copyable /\ copy_ = <<>>
    /\ \E c \in copy(type_, inst, G) :
        /\ Bounded(c[1])
        /\ Store(c[2])
        /\ copy_' = <<c[1]>>
    /\ last' = Call("copy", 0, Value(EmptyBlock), EmptyBlock, EmptyBlock)
    /\ UNCHANGED <<inst, alive, live, by, scen, hist>>
    /\ UNCHANGED others

\* copy = allocator, for a copy made earlier
CopyAssign ==
    /\ alive /\ Copyable /\ copy_ # <<>>
    /\ \E c \in Stats_assign(type_, copy_[1], inst, G) :
        /\ Bounded(c[1])
        /\ Store(c[2])
        /\ copy_' = <<c[1]>>
    /\ last' = Call("assign", 0, Value(EmptyBlock), EmptyBlock, EmptyBlock)
    /\ UNCHANGED <<inst, alive, live, by, scen, hist>>
    /\ UNCHANGED others

\* the copy goes out of scope
DestroyCopy ==
    /\ copy_ # <<>>
    /\ \E d \in destroy(type_, copy_[1], G) : Store(d.g)
    /\ copy_' = <<>>
    /\ last' = Call("destroy_copy", 0, Value(EmptyBlock), EmptyBlock, EmptyBlock)
    /\ UNCHANGED <<inst, alive, live, by, scen, hist>>
    /\ UNCHANGED others

Next ==
    \/ Allocate \/ Deallocate \/ DeallocateEmpty
    \/ Destroy \/ Construct
    \/ CopyConstruct \/ CopyAssign \/ DestroyCopy

Spec == Init /\ [][Next]_vars

(***************************************************************************)
(* The block program: a caller with an array of MemLen bytes makes blocks  *)
(* over it and compares, copies and fills them, one operation at a time.   *)
(***************************************************************************)
\* the addresses of the caller's array
Addrs == Array_base .. (Array_base + MemLen - 1)

\* the values a byte of the array takes
Bytes == {0, 1}

\* the values of an object of n bytes
RECURSIVE Values(_)
Values(n) == IF n = 0 THEN {0} ELSE { b + 256 * v : b \in Bytes, v \in Values(n - 1) }

\* the blocks of element type T that lie in the array, and the empty block
ArrayBlocks(T) ==
    {EmptyBlock} \cup
    { Block(s, p, hint_min) : s \in 1 .. MemLen, p \in Addrs }

InArray(T, b) == empty(b) \/ b.p_ + b.s_ * ssizeof(T) <= Array_base + MemLen

\* the counts the caller passes
Counts == {-1, 0, 1, 2, 3, MemLen + 1}

BlockOp(op, T1, T2, x, y, n, p, v, r) ==
    [op |-> op, T1 |-> T1, T2 |-> T2, x |-> x, y |-> y, n |-> n, p |-> p,
     v |-> v, r |-> r]

\* overload resolution of operator==, copy and set
blocks_eq(T1, lhs, T2, rhs, m) ==
    IF T1 = "void" \/ T2 = "void" THEN Block_eq_void(T1, lhs, T2, rhs, m)
    ELSE Block_eq(T1, lhs, T2, rhs, m)

blocks_copy(T1, src, T2, dst, count, m) ==
    IF T1 = "void" \/ T2 = "void" THEN Block_copy_void(T1, src, T2, dst, count, m)
    ELSE Block_copy(T1, src, T2, dst, count, m)

blocks_set(T1, b, T2, value, count, m) ==
    IF T1 = "void" THEN Block_set_void(b, T2, value, count, m)
    ELSE Block_set(T1, b, value, count, m)

BlockInit ==
    /\ AllocInit({"Malloc"})
    /\ mem = [x \in Addrs |-> 0]
    /\ bop = NoBlockOp
    /\ NoPointers
    /\ buf = NoBuffers
    /\ ref = NoRef

\* Block<T> b{ s, p, hint }; b == Block<T>{}
BlockConstruct ==
    /\ bop = NoBlockOp
    /\ \E T \in ElemTypes : \E s \in {-1, 0, 1, 2} : \E p \in {Null, Array_base} :
       \E hint \in {hint_min, uuid_} :
          LET b == Block(s, p, hint)
          IN  bop' = BlockOp("construct", T, T, b, EmptyBlock, s, p, hint,
                             blocks_eq(T, b, T, EmptyBlock, mem))
    /\ UNCHANGED <<mem, vars, ptrVars, bufVars, refVars>>

\* lhs == rhs
BlockCompare ==
    /\ bop = NoBlockOp
    /\ \E T1, T2 \in ElemTypes :
       \E lhs \in ArrayBlocks(T1) : \E rhs \in ArrayBlocks(T2) :
          /\ InArray(T1, lhs) /\ InArray(T2, rhs)
          /\ bop' = BlockOp("compare", T1, T2, lhs, rhs, 0, Null, 0,
                            blocks_eq(T1, lhs, T2, rhs, mem))
    /\ UNCHANGED <<mem, vars, ptrVars, bufVars, refVars>>

\* copy(src, dst, count)
BlockCopy ==
    /\ bop = NoBlockOp
    /\ \E T1, T2 \in ElemTypes :
       \E src \in ArrayBlocks(T1) : \E dst \in ArrayBlocks(T2) : \E count \in Counts :
          /\ InArray(T1, src) /\ InArray(T2, dst)
          /\ LET c == blocks_copy(T1, src, T2, dst, count, mem)
             IN  /\ bop' = BlockOp("copy", T1, T2, src, dst, count, Null, 0, c[1])
                 /\ mem' = c[2]
    /\ UNCHANGED <<vars, ptrVars, bufVars, refVars>>

\* set(b, value, count), the value of type T2
BlockSet ==
    /\ bop = NoBlockOp
    /\ \E T1 \in ElemTypes : \E T2 \in ElemTypes \ {"void"} :
       \E b \in ArrayBlocks(T1) : \E value \in Values(ssizeof(T2)) :
       \E count \in Counts :
          /\ InArray(T1, b)
          /\ LET c == blocks_set(T1, b, T2, value, count, mem)
             IN  /\ bop' = BlockOp("set", T1, T2, b, EmptyBlock, count, Null, value, c[1])
                 /\ mem' = c[2]
    /\ UNCHANGED <<vars, ptrVars, bufVars, refVars>>

\* the caller has looked at the result and goes on to its next operation
BlockDone ==
    /\ bop # NoBlockOp
    /\ bop' = NoBlockOp
    /\ UNCHANGED <<mem, vars, ptrVars, bufVars, refVars>>

BlockNext == BlockConstruct \/ BlockCompare \/ BlockCopy \/ BlockSet \/ BlockDone

allVars == <<vars, others>>

BlockSpec == BlockInit /\ [][BlockNext]_allVars

(***************************************************************************)
(* The pointer program: a caller that constructs, copies, moves, assigns,  *)
(* resets, casts, locks and destroys the pointer objects sp1 .. wp2, all   *)
(* with the Internal_allocator type_.  A program that has run into         *)
(* undefined behaviour takes no further step.                              *)
(***************************************************************************)
\* the regions std::malloc can hand out in a run of the pointer program: two
\* more than in an allocator run, a managed object taking two (its own and
\* its control block's)
PtrArena == Heap_base .. (Heap_base + MaxHeap + 1)

\* the memory state the pointer operations work on
M == [g |-> [G EXCEPT !.arena = PtrArena], cbs |-> cbs, objs |-> objs, ub |-> ub]

\* the memory state after an operation
PtrStore(m) ==
    /\ Store(m.g)
    /\ cbs' = m.cbs
    /\ objs' = m.objs
    /\ ub' = m.ub
    /\ UNCHANGED <<inst, alive, copy_, live, by, last, scen, hist, blockVars, bufVars,
                   refVars>>

PtrInit ==
    /\ AllocInit({"Malloc"})
    /\ mem = <<>>
    /\ bop = NoBlockOp
    /\ NoPointers
    /\ buf = NoBuffers
    /\ ref = NoRef

\* one more operation of a program that is still defined
Step == ub = "none" /\ steps < MaxSteps /\ steps' = steps + 1

\* the caller names a new pointer object after the first name that is free
Fresh(names, x) ==
    /\ x \notin made
    /\ \A i, j \in 1 .. Len(names) : (names[i] = x /\ j < i) => names[j] \in made

\* the pointer values a caller passes to Shared_ptr(ptr) and reset(ptr): null,
\* or an object it has just made with the allocator (make_shared does the same
\* and, like the object a Unique_ptr releases to operator=, is that case)
Raw(m) == {<<Null, m>>} \cup NewObject(type_, m)

\* Shared_ptr<T> x{ptr};  auto x = make_shared<T>(...);
SharedCtor(x) ==
    /\ Step /\ Fresh(SharedNames, x)
    /\ \E o \in Shared_ptr_ctor(type_, Null, M) \cup make_shared(type_, M) :
          /\ sp' = [sp EXCEPT ![x] = o[1]]
          /\ PtrStore(o[2])
    /\ made' = made \cup {x}
    /\ UNCHANGED wp
    /\ UNCHANGED up

\* Shared_ptr<T> x{y};
SharedCopy(x, y) ==
    /\ Step /\ Fresh(SharedNames, x) /\ y \in made
    /\ LET o == Shared_ptr_copy(sp[y], M)
       IN  /\ sp' = [sp EXCEPT ![x] = o[1]]
           /\ PtrStore(o[2])
    /\ made' = made \cup {x}
    /\ UNCHANGED wp
    /\ UNCHANGED up

\* auto x = static_pointer_cast<T>(y);  auto x = dynamic_pointer_cast<T>(y);
\* and the same of std::move(y)
SharedCast(x, y) ==
    /\ Step /\ Fresh(SharedNames, x) /\ y \in made
    /\ \/ \E o \in {pointer_cast(sp[y], M)}
                   \cup {dynamic_pointer_cast(sp[y], is_a, M) : is_a \in BOOLEAN} :
             /\ sp' = [sp EXCEPT ![x] = o[1]]
             /\ PtrStore(o[2])
       \/ \E o \in {pointer_cast_move(sp[y])}
                   \cup {dynamic_pointer_cast_move(sp[y], is_a) : is_a \in BOOLEAN} :
             /\ sp' = [sp EXCEPT ![x] = o[1], ![y] = o[2]]
             /\ PtrStore(M)
    /\ made' = made \cup {x}
    /\ UNCHANGED wp
    /\ UNCHANGED up

\* x = y;
SharedAssign(x, y) ==
    /\ Step /\ x \in made /\ y \in made
    /\ \E o \in Shared_ptr_assign(type_, sp[x], sp[y], x = y, M) :
          /\ sp' = [sp EXCEPT ![x] = o[1]]
          /\ PtrStore(o[2])
    /\ UNCHANGED <<wp, made>>
    /\ UNCHANGED up

\* Shared_ptr<T> x{std::move(y)};
SharedMove(x, y) ==
    /\ Step /\ Fresh(SharedNames, x) /\ y \in made
    /\ LET o == Shared_ptr_move(sp[y])
       IN  sp' = [sp EXCEPT ![x] = o[1], ![y] = o[2]]
    /\ made' = made \cup {x}
    /\ UNCHANGED <<wp, cbs, objs, ub, vars, blockVars, bufVars, refVars>>
    /\ UNCHANGED up

\* x = std::move(y);
SharedMoveAssign(x, y) ==
    /\ Step /\ x \in made /\ y \in made
    /\ \E o \in Shared_ptr_move_assign(type_, sp[x], sp[y], x = y, M) :
          /\ sp' = IF x = y THEN [sp EXCEPT ![x] = o[1]]
                   ELSE [sp EXCEPT ![x] = o[1], ![y] = o[2]]
          /\ PtrStore(o[3])
    /\ UNCHANGED <<wp, made>>
    /\ UNCHANGED up

\* x.reset();
SharedReset(x) ==
    /\ Step /\ x \in made
    /\ \E o \in Shared_ptr_reset(type_, sp[x], M) :
          /\ sp' = [sp EXCEPT ![x] = o[1]]
          /\ PtrStore(o[2])
    /\ UNCHANGED <<wp, made>>
    /\ UNCHANGED up

\* x.reset(ptr);  x = std::move(unique);
SharedResetPtr(x) ==
    /\ Step /\ x \in made
    /\ \E r \in Raw(M) : \E o \in Shared_ptr_reset_ptr(type_, sp[x], r[1], r[2]) :
          /\ sp' = [sp EXCEPT ![x] = o[1]]
          /\ PtrStore(o[2])
    /\ UNCHANGED <<wp, made>>
    /\ UNCHANGED up

\* the end of x's lifetime: ~Shared_ptr()
SharedDestroy(x) ==
    /\ Step /\ x \in made
    /\ \E o \in Shared_remove_reference(type_, sp[x], M) : PtrStore(o[2])
    /\ sp' = [sp EXCEPT ![x] = Empty_ptr]
    /\ made' = made \ {x}
    /\ UNCHANGED wp
    /\ UNCHANGED up

\* Weak_ptr<T> x;
WeakCtor(x) ==
    /\ Step /\ Fresh(WeakNames, x)
    /\ made' = made \cup {x}
    /\ UNCHANGED <<sp, wp, up, cbs, objs, ub, vars, blockVars, bufVars, refVars>>

\* Weak_ptr<T> x{y};  y a Shared_ptr or a Weak_ptr
WeakCopy(x, y) ==
    /\ Step /\ Fresh(WeakNames, x) /\ y \in made
    /\ LET o == Weak_ptr_copy(IF y \in SharedSlots THEN sp[y] ELSE wp[y], M)
       IN  /\ wp' = [wp EXCEPT ![x] = o[1]]
           /\ PtrStore(o[2])
    /\ made' = made \cup {x}
    /\ UNCHANGED sp
    /\ UNCHANGED up

\* x = y;  y a Shared_ptr
WeakAssignShared(x, y) ==
    /\ Step /\ x \in made /\ y \in made
    /\ \E o \in Weak_ptr_assign_shared(type_, wp[x], sp[y], M) :
          /\ wp' = [wp EXCEPT ![x] = o[1]]
          /\ PtrStore(o[2])
    /\ UNCHANGED <<sp, made>>
    /\ UNCHANGED up

\* x = y;  y a Weak_ptr
WeakAssign(x, y) ==
    /\ Step /\ x \in made /\ y \in made
    /\ \E o \in Weak_ptr_assign(type_, wp[x], wp[y], x = y, M) :
          /\ wp' = [wp EXCEPT ![x] = o[1]]
          /\ PtrStore(o[2])
    /\ UNCHANGED <<sp, made>>
    /\ UNCHANGED up

\* Weak_ptr<T> x{std::move(y)};
WeakMove(x, y) ==
    /\ Step /\ Fresh(WeakNames, x) /\ y \in made
    /\ LET o == Weak_ptr_move(wp[y])
       IN  wp' = [wp EXCEPT ![x] = o[1], ![y] = o[2]]
    /\ made' = made \cup {x}
    /\ UNCHANGED <<sp, cbs, objs, ub, vars, blockVars, bufVars, refVars>>
    /\ UNCHANGED up

\* x = std::move(y);
WeakMoveAssign(x, y) ==
    /\ Step /\ x \in made /\ y \in made
    /\ \E o \in Weak_ptr_move_assign(type_, wp[x], wp[y], x = y, M) :
          /\ wp' = IF x = y THEN [wp EXCEPT ![x] = o[1]]
                   ELSE [wp EXCEPT ![x] = o[1], ![y] = o[2]]
          /\ PtrStore(o[3])
    /\ UNCHANGED <<sp, made>>
    /\ UNCHANGED up

\* x.reset();
WeakReset(x) ==
    /\ Step /\ x \in made
    /\ \E o \in Weak_ptr_reset(type_, wp[x], M) :
          /\ wp' = [wp EXCEPT ![x] = o[1]]
          /\ PtrStore(o[2])
    /\ UNCHANGED <<sp, made>>
    /\ UNCHANGED up

\* the end of x's lifetime: ~Weak_ptr()
WeakDestroy(x) ==
    /\ Step /\ x \in made
    /\ \E o \in Weak_remove_reference(type_, wp[x], M) : PtrStore(o[2])
    /\ wp' = [wp EXCEPT ![x] = Empty_ptr]
    /\ made' = made \ {x}
    /\ UNCHANGED sp
    /\ UNCHANGED up

\* auto x = y.lock();
WeakLock(x, y) ==
    /\ Step /\ Fresh(SharedNames, x) /\ y \in made
    /\ LET o == Weak_ptr_lock(wp[y], M)
       IN  /\ sp' = [sp EXCEPT ![x] = o[1]]
           /\ PtrStore(o[2])
    /\ made' = made \cup {x}
    /\ UNCHANGED wp
    /\ UNCHANGED up

PtrNext ==
    \/ \E x \in SharedSlots : SharedCtor(x)
    \/ \E x, y \in SharedSlots : SharedCopy(x, y)
    \/ \E x, y \in SharedSlots : SharedCast(x, y)
    \/ \E x, y \in SharedSlots : SharedAssign(x, y)
    \/ \E x, y \in SharedSlots : SharedMove(x, y)
    \/ \E x, y \in SharedSlots : SharedMoveAssign(x, y)
    \/ \E x \in SharedSlots : SharedReset(x)
    \/ \E x \in SharedSlots : SharedResetPtr(x)
    \/ \E x \in SharedSlots : SharedDestroy(x)
    \/ \E x \in WeakSlots : WeakCtor(x)
    \/ \E x \in WeakSlots, y \in SharedSlots \cup WeakSlots : WeakCopy(x, y)
    \/ \E x \in WeakSlots, y \in SharedSlots : WeakAssignShared(x, y)
    \/ \E x, y \in WeakSlots : WeakAssign(x, y)
    \/ \E x, y \in WeakSlots : WeakMove(x, y)
    \/ \E x, y \in WeakSlots : WeakMoveAssign(x, y)
    \/ \E x \in WeakSlots : WeakReset(x)
    \/ \E x \in WeakSlots : WeakDestroy(x)
    \/ \E x \in SharedSlots, y \in WeakSlots : WeakLock(x, y)

PtrSpec == PtrInit /\ [][PtrNext]_allVars

(***************************************************************************)
(* Vocabulary of the properties.                                           *)
(***************************************************************************)
\* everything an allocator call can change
AllocState == <<inst, ptrs_, heap, nodes, records, shared_>>

InRange(s) == s >= Min_size /\ s <= Max_size

\* n rounded up to the next even number
Even(n) == n + (n % 2)

\* bytes left in stack i
Room(ptrs, i) == Buffer_size - (ptrs[i] - buffers_(i))

\* the stack an address lies in
BufferOf(p) == CHOOSE i \in Stacks : p >= buffers_(i) /\ p < buffers_(i) + Buffer_size

\* some block the caller still holds was allocated after live[i] in its stack
OutOfOrder(i) ==
    \E k \in (i + 1) .. Len(live) : BufferOf(live[k].p_) = BufferOf(live[i].p_)

NoOverlap(l) ==
    \A i, k \in 1 .. Len(l) :
        i < k => (l[i].p_ + l[i].s_ <= l[k].p_ \/ l[k].p_ + l[k].s_ <= l[i].p_)

StackTypes == {"Stack", "Shared<Stack>"}

(***************************************************************************)
(* C1. Allocation shape: whenever allocate(n) with n > 0 succeeds, on any  *)
(* allocator type and in any reachable state, the block returned has       *)
(* size() = n exactly and data() # null.                                   *)
(***************************************************************************)
C1_AllocationShape ==
    (last.op = "allocate" /\ last.n > 0 /\ last.r.ok)
        => (last.r.b.s_ = last.n /\ last.r.b.p_ # Null)

\* an in-range request served by Free_list from a Max_size inner block
C1_Witness ==
    /\ type_ = "Free_list<Malloc>"
    /\ last.op = "allocate" /\ last.n = Min_size /\ last.r.ok
    /\ inst.list_size_ = 0 /\ Len(live) = 2

(***************************************************************************)
(* C2. Ownership closure: every non-empty block the allocator returned and *)
(* the caller has not given back is owned by the allocator, after any      *)
(* further allocate and deallocate calls.                                  *)
(***************************************************************************)
C2_OwnershipClosure ==
    \A i \in 1 .. Len(live) : owns(type_, inst, G, live[i])

\* a block is still held after a later block was given back
C2_Witness ==
    /\ Len(live) >= 1
    /\ last.op = "deallocate" /\ ~empty(last.arg)
    /\ type_ = "Fallback<Stack,Malloc>"
    /\ \E i \in 1 .. Len(live) : live[i].hint_ = uuid_

(***************************************************************************)
(* C3. Negative size: allocate(n) with n < 0 returns the error             *)
(* invalid_size on every allocator type, and the call leaves the allocator *)
(* state (bump pointers, heap, free list, stats ring and total) unchanged. *)
(***************************************************************************)
C3_NegativeSize ==
    [][ (last'.op = "allocate" /\ last'.n < 0)
            => (last'.r = Unexpected("invalid_size") /\ UNCHANGED AllocState) ]_vars

\* a negative request on a Stats allocator that has recorded events
C3_Witness ==
    /\ last.op = "allocate" /\ last.n < 0
    /\ type_ = "Stats<Malloc>" /\ inst.number_of_records_ > 0

(***************************************************************************)
(* C4. Zero size: allocate(0) succeeds with an empty block on every        *)
(* allocator type, the allocator does not own that block, and the call     *)
(* leaves the allocator state unchanged.                                   *)
(***************************************************************************)
C4_ZeroSize ==
    [][ (last'.op = "allocate" /\ last'.n = 0)
            => /\ last'.r.ok
               /\ empty(last'.r.b)
               /\ ~owns(type_', inst', G', last'.r.b)
               /\ UNCHANGED AllocState ]_vars

\* a zero request on a Stats allocator that would otherwise record
C4_Witness ==
    /\ last.op = "allocate" /\ last.n = 0
    /\ type_ = "Stats<Stack>" /\ inst.number_of_records_ = 1

(***************************************************************************)
(* C5. Deallocating an empty block is a no-op on every allocator type: it  *)
(* leaves bump pointers, free list, stats ring and total_allocated as they *)
(* were, and the block stays empty.                                        *)
(***************************************************************************)
C5_EmptyDeallocateNoOp ==
    [][ (last'.op = "deallocate" /\ empty(last'.arg))
            => (empty(last'.b) /\ UNCHANGED AllocState) ]_vars

(***************************************************************************)
(* C6. Free resets: after deallocate(b), for b a block the allocator       *)
(* returned (or an empty block), the caller's block is empty, also when    *)
(* the allocator could not reclaim the memory.                             *)
(***************************************************************************)
C6_FreeResets ==
    (last.op = "deallocate") => empty(last.b)

\* an out-of-order free on the shared stack: nothing reclaimed, block reset
C6_Witness ==
    /\ type_ = "Shared<Stack>"
    /\ last.op = "deallocate" /\ ~empty(last.arg)
    /\ \E i \in 1 .. Len(live) :
          /\ BufferOf(live[i].p_) = BufferOf(last.arg.p_)
          /\ live[i].p_ > last.arg.p_

(***************************************************************************)
(* C7. Stack memory reuse for every size s, odd sizes included:            *)
(* b1 = allocate(s); deallocate(b1); b2 = allocate(s) gives                *)
(* b2.data = b1.data.                                                      *)
(***************************************************************************)
C7_StackReuse ==
    (/\ type_ \in StackTypes
     /\ scen.ph = "realloc" /\ Len(scen.run) = 1 /\ Len(scen.got) = 1
     /\ scen.got[1].n = scen.size)
        => (scen.got[1].ok /\ scen.got[1].p = scen.run[1])

(***************************************************************************)
(* C8. Stack exhaustion: allocate(n), n > 0, returns out_of_memory exactly *)
(* when no stack has align(n) bytes left, and then moves no bump pointer;  *)
(* otherwise the block starts at the bump pointer of the first stack with  *)
(* room, and that bump pointer advances by align(n).                       *)
(***************************************************************************)
C8_StackExhaustion ==
    [][ (type_ \in StackTypes /\ last'.op = "allocate" /\ last'.n > 0)
            => LET fit == {i \in Stacks : Room(ptrs_, i) >= Even(last'.n)}
               IN  IF fit = {}
                   THEN last'.r = Unexpected("out_of_memory") /\ ptrs_' = ptrs_
                   ELSE /\ last'.r.ok
                        /\ last'.r.b.p_ = ptrs_[Min(fit)]
                        /\ ptrs_' = [ptrs_ EXCEPT ![Min(fit)] = @ + Even(last'.n)] ]_vars

\* a request that fits the capacity is refused because both stacks are used up
C8_Witness ==
    /\ type_ = "Stack"
    /\ last.op = "allocate" /\ last.n = Min_size
    /\ last.r.err = "out_of_memory"

(***************************************************************************)
(* C9. Stack deallocation is LIFO-only: deallocating a held block that is  *)
(* not the most recent allocation of its stack moves no bump pointer, and  *)
(* no two blocks the caller holds ever overlap.                            *)
(***************************************************************************)
C9_StackLIFO ==
    [][ (type_ = "Stack")
            => /\ \A i \in 1 .. Len(live) :
                     (/\ last'.op = "deallocate" /\ last'.arg = live[i]
                      /\ live' = Remove(live, i)
                      /\ OutOfOrder(i))
                         => ptrs_' = ptrs_
               /\ NoOverlap(live') ]_vars

\* an out-of-order free has happened and the later block is still held
C9_Witness ==
    /\ type_ = "Stack"
    /\ last.op = "deallocate" /\ ~empty(last.arg)
    /\ \E i \in 1 .. Len(live) :
          /\ BufferOf(live[i].p_) = BufferOf(last.arg.p_)
          /\ live[i].p_ > last.arg.p_

(***************************************************************************)
(* C10. Free_list LIFO recycling: after allocating k <= Max_list_size      *)
(* blocks of one in-range size and deallocating all k, the next            *)
(* allocations of in-range sizes return those k pointers, last freed       *)
(* first, each with the requested size and without asking the inner        *)
(* allocator.                                                              *)
(***************************************************************************)
C10_FreeListLIFO ==
    (/\ Kind(type_) = "Free_list"
     /\ scen.ph = "realloc" /\ InRange(scen.size)
     /\ Len(scen.run) <= Max_list_size
     /\ \A i \in 1 .. Len(scen.got) : InRange(scen.got[i].n))
        => \A i \in 1 .. Len(scen.got) :
              /\ scen.got[i].ok
              /\ scen.got[i].p = scen.freed[Len(scen.freed) + 1 - i]
              /\ scen.got[i].s = scen.got[i].n
              /\ scen.got[i].same

\* two blocks were freed and both came back, the last freed first
C10_Witness ==
    /\ Kind(type_) = "Free_list"
    /\ scen.ph = "realloc" /\ InRange(scen.size)
    /\ Len(scen.run) = Max_list_size /\ Len(scen.got) = Max_list_size
    /\ scen.got[1].n # scen.got[2].n
    /\ scen.freed[1] # scen.run[1]

(***************************************************************************)
(* Vocabulary of the properties, continued.                                *)
(***************************************************************************)
\* the free lists of the run: the instance's own or the shared one
FreeLists ==
    IF Kind(type_) = "Free_list" THEN {inst}
    ELSE IF type_ = "Shared<Free_list<Malloc>>" THEN {shared_[type_]}
    ELSE {}

Pointers(l) == {l[i].p_ : i \in 1 .. Len(l)}

Distinct(l) == \A i, k \in 1 .. Len(l) : i # k => l[i] # l[k]

(***************************************************************************)
(* C11. Free_list capacity bound: in every reachable state a free list     *)
(* holds at most Max_list_size cached nodes (an in-range block that        *)
(* arrives when the list already holds Max_list_size nodes goes to Inner). *)
(***************************************************************************)
C11_FreeListCapacity ==
    \A fl \in FreeLists : fl.list_size_ <= Max_list_size

(***************************************************************************)
(* C12. Free_list teardown: the destructor hands every cached node to      *)
(* Inner.deallocate exactly once, as a block of size Max_size with the     *)
(* hint the block had when it was cached; as many blocks are released as   *)
(* the list holds, and afterwards only the caller's blocks are allocated.  *)
(***************************************************************************)
C12_FreeListTeardown ==
    [][ (Kind(type_) = "Free_list" /\ last'.op = "destroy")
            => LET log == last'.log
               IN  /\ Len(log) = inst.list_size_
                   /\ \A i \in 1 .. Len(log) :
                         log[i].s_ = Max_size /\ log[i].hint_ = uuid_
                   /\ Distinct(log)
                   /\ Pointers(log) = heap \ Pointers(live)
                   /\ heap' = Pointers(live) ]_vars

\* a list of two cached nodes was torn down while the caller held nothing
C12_Witness ==
    /\ Kind(type_) = "Free_list"
    /\ last.op = "destroy" /\ Len(last.log) = Max_list_size
    /\ heap = {} /\ ~alive

(***************************************************************************)
(* The ring of a Stats instance, read from its memory.                     *)
(***************************************************************************)
\* the addresses of the records from c on, following next, k at most
RECURSIVE Walk(_, _, _)
Walk(recs, c, k) ==
    IF c = Null \/ k = 0 THEN <<>>
    ELSE <<c>> \o Walk(recs, recs[c].next, k - 1)

\* the records of instance a, head first
Ring(a, recs) == Walk(recs, a.root_, Number_of_records + 1)

\* what the records hold, as events
Events(a, recs) ==
    [i \in 1 .. Len(Ring(a, recs)) |->
        Event(recs[Ring(a, recs)[i]].request_address, recs[Ring(a, recs)[i]].amount)]

\* the step is a call on a Stats instance that stores an event
Recording ==
    /\ Kind(type_) = "Stats"
    /\ \/ last'.op = "allocate" /\ last'.r.ok /\ ~empty(last'.r.b)
       \/ last'.op = "deallocate"
    /\ Recorded(inst, inst')

(***************************************************************************)
(* C13. Stats ring discipline: the ring never holds more than              *)
(* Number_of_records records; once more events than that were recorded it  *)
(* holds exactly that many; from head to tail it is acyclic, ends with     *)
(* tail->next = null and holds the latest events in the order recorded;    *)
(* an event recorded on a full ring reuses the oldest record in place, as  *)
(* the new tail.                                                           *)
(***************************************************************************)
C13_RingShape ==
    (Kind(type_) = "Stats" /\ alive)
        => LET w == Ring(inst, records)
           IN  /\ inst.number_of_records_ <= Number_of_records
               /\ Len(w) = inst.number_of_records_
               /\ hist.count > Number_of_records
                     => inst.number_of_records_ = Number_of_records
               /\ Distinct(w)
               /\ w # <<>> => (w[Len(w)] = inst.tail_ /\ records[inst.tail_].next = Null)
               /\ \A i \in 1 .. Len(w) : records[w[i]].record_address = w[i]
               /\ Events(inst, records) = hist.events

C13_RingReuse ==
    (Recording /\ inst.number_of_records_ >= Number_of_records)
        => /\ inst'.tail_ = inst.root_
           /\ inst'.root_ = records[inst.root_].next
           /\ records'[inst'.tail_].record_address = inst.root_
           /\ Ring(inst', records') = Tail(Ring(inst, records)) \o <<inst.root_>>

C13_StatsRing == [] C13_RingShape /\ [][C13_RingReuse]_vars

\* an allocation was recorded on a ring that was full already
C13_Witness ==
    /\ type_ = "Stats<Malloc>" /\ alive
    /\ hist.count > Number_of_records
    /\ last.op = "allocate" /\ last.r.ok /\ ~empty(last.r.b)
    /\ records[inst.tail_].request_address = last.r.b.p_

(***************************************************************************)
(* C14. Stats amounts: a recorded allocation of n bytes stores             *)
(* sizeof(Record) + n, a recorded deallocation of n bytes stores           *)
(* sizeof(Record) - n, in a new record or in a recycled one, and           *)
(* total_allocated is the sum of the amounts of all events recorded so     *)
(* far, overwritten ones included.                                         *)
(***************************************************************************)
C14_Total ==
    (Kind(type_) = "Stats" /\ alive) => inst.total_allocated_ = hist.sum

C14_Amount ==
    Recording
        => LET t == records'[inst'.tail_]
           IN  IF last'.op = "allocate"
               THEN /\ t.amount = sizeof_Record + last'.n
                    /\ t.request_address = last'.r.b.p_
               ELSE /\ t.amount = sizeof_Record - last'.arg.s_
                    /\ t.request_address = last'.arg.p_

C14_StatsAmounts == [] C14_Total /\ [][C14_Amount]_vars

\* four events on a ring of two: the deallocation was stored in a recycled record
C14_Witness ==
    /\ type_ = "Stats<Malloc>" /\ alive
    /\ hist.count > Number_of_records
    /\ last.op = "deallocate" /\ last.arg.s_ = Min_size
    /\ records[inst.tail_].amount = sizeof_Record - Min_size
    /\ records[inst.root_].amount = sizeof_Record + Min_size
    /\ inst.total_allocated_ = 4 * sizeof_Record

(***************************************************************************)
(* C15. The cumulative total of a Stats instance is monotonic: no allocate *)
(* or deallocate call, whatever the size of the block, makes               *)
(* total_allocated smaller.                                                *)
(***************************************************************************)
C15_TotalMonotonic ==
    [][ (Kind(type_) = "Stats" /\ last'.op \in {"allocate", "deallocate"})
            => inst'.total_allocated_ >= inst.total_allocated_ ]_vars

(***************************************************************************)
(* C16. Copying a Stats allocator, by copy construction or by copy         *)
(* assignment into an existing one, gives a target with the source's       *)
(* stats_list_size and total_allocated and with records of the same        *)
(* amounts and request addresses in the same order at other addresses;     *)
(* the source is unchanged.                                                *)
(***************************************************************************)
C16_StatsCopy ==
    [][ (Kind(type_) = "Stats" /\ last'.op \in {"copy", "assign"})
            => LET c == copy_'[1]
               IN  /\ c.number_of_records_ = inst.number_of_records_
                   /\ c.total_allocated_ = inst.total_allocated_
                   /\ Events(c, records') = Events(inst, records)
                   /\ Range(Ring(c, records')) \cap Range(Ring(inst, records)) = {}
                   /\ inst' = inst
                   /\ Events(inst', records') = Events(inst, records) ]_vars

(***************************************************************************)
(* C17. Two Shared_allocator values of one type work on one backing        *)
(* allocator: a call through either is a call on the one allocator_ of the *)
(* type, in the state the calls before left it in, through whichever       *)
(* instance they went; a block allocated through one instance can be       *)
(* deallocated through the other.  With a Stack inner, s bytes through a1  *)
(* then s bytes through a2 give b2.data = b1.data + align(s).              *)
(***************************************************************************)
C17_OneBacking ==
    (/\ Kind(type_) = "Shared" /\ HandleType(last'.via) = type_
     /\ last'.op \in {"allocate", "deallocate"})
        => LET Same(g) == /\ ptrs_' = g.ptrs_ /\ heap' = g.heap
                          /\ nodes' = g.nodes /\ records' = g.records
           IN  IF last'.op = "allocate"
               THEN \E o \in allocate(InnerOf(type_), shared_[type_], G, last'.n) :
                       last'.r = o.r /\ shared_'[type_] = o.a /\ Same(o.g)
               ELSE \E o \in deallocate(InnerOf(type_), shared_[type_], G, last'.arg) :
                       last'.b = o.b /\ shared_'[type_] = o.a /\ Same(o.g)

C17_NextToEachOther ==
    (/\ type_ = "Shared<Stack>"
     /\ last.op = "allocate" /\ last.r.ok /\ ~empty(last.r.b)
     /\ last'.op = "allocate" /\ last'.n = last.n
     /\ last'.via # last.via /\ HandleType(last'.via) = HandleType(last.via)
     /\ Room(ptrs_, BufferOf(last.r.b.p_)) >= Even(last.n))
        => (last'.r.ok /\ last'.r.b.p_ = last.r.b.p_ + Even(last.n))

C17_SharedSameType == [][C17_OneBacking /\ C17_NextToEachOther]_vars

\* two blocks next to each other, the first through a1, the second through a2
C17_Witness ==
    /\ type_ = "Shared<Stack>"
    /\ Len(live) = 2 /\ by = <<0, 1>>
    /\ last.op = "allocate" /\ last.via = 1
    /\ live[2].p_ = live[1].p_ + Even(live[1].s_)

(***************************************************************************)
(* C18. Shared_allocator values with the same Inner type and different Id  *)
(* have independent state: with a Stack inner, after one allocation        *)
(* through each, b2.data # b1.data + size.                                 *)
(***************************************************************************)
C18_SharedOtherId ==
    [][ (/\ type_ = "Shared<Stack>"
         /\ last.op = "allocate" /\ last.r.ok /\ ~empty(last.r.b)
         /\ last'.op = "allocate" /\ last'.r.ok /\ ~empty(last'.r.b)
         /\ HandleType(last'.via) # HandleType(last.via))
            => last'.r.b.p_ # last.r.b.p_ + last.r.b.s_ ]_vars

(***************************************************************************)
(* C19. Fallback fallthrough: allocate(n) returns Primary's block whenever *)
(* Primary succeeds and otherwise exactly the result of                    *)
(* Fallback.allocate(n), so it fails only when both fail; a block that     *)
(* came from Fallback is not owned by Primary, is owned by Fallback, and   *)
(* the composite's owns is the disjunction of the two.                     *)
(***************************************************************************)
C19_FallbackAllocate ==
    [][ (Kind(type_) = "Fallback" /\ last'.op = "allocate")
            => LET P == PrimaryOf(type_)
                   F == FallbackOf(type_)
                   b == last'.r.b
                   Same(g) == ptrs_' = g.ptrs_ /\ heap' = g.heap
               IN  /\ \E o \in allocate(P, inst.primary_, G, last'.n) :
                         IF o.r.ok
                         THEN last'.r = o.r /\ Same(o.g)
                         ELSE /\ \E f \in allocate(F, inst.fallback_, o.g, last'.n) :
                                    last'.r = f.r /\ Same(f.g)
                              /\ last'.r.ok /\ ~empty(b)
                                    => /\ ~owns(P, inst'.primary_, G', b)
                                       /\ owns(F, inst'.fallback_, G', b)
                   /\ owns(type_, inst', G', b)
                         = (owns(P, inst'.primary_, G', b) \/ owns(F, inst'.fallback_, G', b)) ]_vars

\* a request larger than a stack was served by std::malloc
C19_Witness ==
    /\ Kind(type_) = "Fallback"
    /\ last.op = "allocate" /\ last.n = Buffer_size + 1
    /\ last.r.ok /\ last.r.b.p_ \in heap /\ last.r.b.s_ = Buffer_size + 1

(***************************************************************************)
(* C20. Fallback deallocation routing: deallocate(b) is Primary's          *)
(* deallocate when Primary owns b, else Fallback's when Fallback owns b,   *)
(* else it changes nothing; a block of Fallback<Stack, Malloc> goes back   *)
(* to the allocator it came from, a stack block to the stacks and a heap   *)
(* block to the heap, never to both.                                       *)
(***************************************************************************)
C20_FallbackDeallocate ==
    [][ (Kind(type_) = "Fallback" /\ last'.op = "deallocate")
            => LET P == PrimaryOf(type_)
                   F == FallbackOf(type_)
                   b == last'.arg
               IN  /\ IF owns(P, inst.primary_, G, b)
                      THEN \E o \in deallocate(P, inst.primary_, G, b) :
                              last'.b = o.b /\ ptrs_' = o.g.ptrs_ /\ heap' = o.g.heap
                      ELSE IF owns(F, inst.fallback_, G, b)
                      THEN \E o \in deallocate(F, inst.fallback_, G, b) :
                              last'.b = o.b /\ ptrs_' = o.g.ptrs_ /\ heap' = o.g.heap
                      ELSE last'.b = b /\ UNCHANGED AllocState
                   /\ b.p_ \in heap => (heap' = heap \ {b.p_} /\ ptrs_' = ptrs_)
                   /\ stack_owns(b.p_)
                         => (heap' = heap /\ ptrs_' = stack_free(ptrs_, b.p_, b.s_)) ]_vars

\* a heap block went back to the heap while a stack block is still held
C20_Witness ==
    /\ Kind(type_) = "Fallback"
    /\ last.op = "deallocate" /\ last.arg.hint_ = uuid_
    /\ heap = {} /\ Len(live) = 1 /\ stack_owns(live[1].p_)

(***************************************************************************)
(* C21. The state of a Stack allocator is per instance: a copy has its own *)
(* bump state, so an allocation through one instance never changes what an *)
(* allocation of any size through another instance returns (neither        *)
(* whether it succeeds nor the address it gives).                          *)
(***************************************************************************)
\* what allocate(n) through handle h returns in the present state
WouldReturn(h, n) == { o.r : o \in allocate(HandleType(h), HandleState(h), G, n) }

C21_StackPerInstance ==
    [][ (type_ = "Stack" /\ last'.op = "allocate")
            => \A h \in Handles \ {last'.via} : \A n \in Sizes :
                  WouldReturn(h, n)' = WouldReturn(h, n) ]_vars

(***************************************************************************)
(* C22. Block normalization: for every size s (negative, zero, positive)   *)
(* and every pointer p (null or not) the block constructed from them is    *)
(* either fully empty (size 0 and data null) or fully populated (size > 0  *)
(* and data not null); Block(0, p), Block(n, null) and Block(negative, p)  *)
(* are empty and compare equal to a default block.                         *)
(***************************************************************************)
C22_BlockNormalized ==
    (bop.op = "construct")
        => LET b == bop.x
           IN  /\ \/ (b.s_ = 0 /\ b.p_ = Null)
                  \/ (b.s_ > 0 /\ b.p_ # Null)
               /\ (bop.n <= 0 \/ bop.p = Null) => (empty(b) /\ bop.r = TRUE)
               /\ (bop.n > 0 /\ bop.p # Null) => (b.s_ = bop.n /\ b.p_ = bop.p)

\* Block(negative, p) with p not null
C22_Witness ==
    /\ bop.op = "construct" /\ bop.n < 0 /\ bop.p # Null
    /\ empty(bop.x) /\ bop.r = TRUE

(***************************************************************************)
(* C23. Cross-view comparison: operator== between a typed and an untyped   *)
(* block (either order, or two untyped blocks) is true exactly when the    *)
(* two byte footprints have the same length and every byte of the full     *)
(* footprint is equal; blocks that differ in any byte, also one after the  *)
(* first element, compare unequal.                                         *)
(***************************************************************************)
\* bytes in the footprint of block b of element type T
Footprint(T, b) == b.s_ * ssizeof(T)

C23_CrossViewCompare ==
    (bop.op = "compare" /\ (bop.T1 = "void" \/ bop.T2 = "void"))
        => bop.r = (/\ Footprint(bop.T1, bop.x) = Footprint(bop.T2, bop.y)
                    /\ \A i \in 0 .. (Footprint(bop.T1, bop.x) - 1) :
                          mem[bop.x.p_ + i] = mem[bop.y.p_ + i])

(***************************************************************************)
(* C24. Fill bound: set(dst, v, k) on a typed block writes and returns     *)
(* min(k, size(dst)) elements; on an untyped destination with a value of   *)
(* sizeof(value) > 1 it returns floor(min(k, size(dst)) / sizeof(value)),  *)
(* writes exactly that many full values from the start and leaves every    *)
(* byte after them unchanged.  (Stated for k >= 0.)                        *)
(***************************************************************************)
Least(a, b) == IF a < b THEN a ELSE b

\* m2 is m1 with c objects of sz bytes at p set to value v, nothing else
Filled(m1, m2, p, sz, c, v) ==
    /\ \A i \in 0 .. (c - 1) : load(m2, p + i * sz, sz) = v % (256 ^ sz)
    /\ \A x \in Addrs : (x < p \/ x >= p + c * sz) => m2[x] = m1[x]

C24_FillBound ==
    [][ (bop'.op = "set" /\ bop'.n >= 0)
            => LET b  == bop'.x
                   sz == ssizeof(bop'.T2)
               IN  IF bop'.T1 # "void"
                   THEN /\ bop'.r = Least(bop'.n, b.s_)
                        /\ Filled(mem, mem', b.p_, ssizeof(bop'.T1), bop'.r, bop'.v)
                   ELSE sz > 1
                        => /\ bop'.r = Least(bop'.n, b.s_) \div sz
                           /\ Filled(mem, mem', b.p_, sz, bop'.r, bop'.v) ]_allVars

(***************************************************************************)
(* C25. Copy truncation: copy(src, dst, k) returns min(k, size(src),       *)
(* size(dst)), counted in elements for two typed blocks and in bytes when  *)
(* either block is untyped; it returns 0 and writes nothing when k = 0 or  *)
(* either block is empty; it writes exactly the returned number of leading *)
(* items of dst with the corresponding items of src and leaves the rest of *)
(* dst and all of src unchanged.                                           *)
(***************************************************************************)
\* the addresses of the first c objects of sz bytes at p
Span(p, sz, c) == { x \in Addrs : x >= p /\ x < p + c * sz }

\* the step is a copy as the claim describes it
CopyTruncation ==
    LET src    == bop'.x
        dst    == bop'.y
        k      == bop'.n
        bytes  == bop'.T1 = "void" \/ bop'.T2 = "void"
        sz1    == IF bytes THEN 1 ELSE ssizeof(bop'.T1)
        sz2    == IF bytes THEN 1 ELSE ssizeof(bop'.T2)
        size1  == IF bytes THEN Footprint(bop'.T1, src) ELSE src.s_
        size2  == IF bytes THEN Footprint(bop'.T2, dst) ELSE dst.s_
    IN  IF k = 0 \/ empty(src) \/ empty(dst)
        THEN bop'.r = 0 /\ mem' = mem
        ELSE /\ bop'.r = Least(k, Least(size1, size2))
             /\ \A i \in 0 .. (bop'.r - 1) :
                   load(mem', dst.p_ + i * sz2, sz2)
                       = load(mem, src.p_ + i * sz1, sz1) % (256 ^ sz2)
             /\ \A x \in Addrs \ Span(dst.p_, sz2, bop'.r) : mem'[x] = mem[x]
             /\ \A x \in Span(src.p_, sz1, size1) : mem'[x] = mem[x]

C25_CopyTruncation == [][ (bop'.op = "copy") => CopyTruncation ]_allVars

\* the footprints of the two blocks of the step have no byte in common
Apart ==
    Span(bop'.x.p_, 1, Footprint(bop'.T1, bop'.x))
        \cap Span(bop'.y.p_, 1, Footprint(bop'.T2, bop'.y)) = {}

\* C25 as amended: the same, for blocks that do not overlap
C25_CopyApart == [][ (bop'.op = "copy" /\ Apart) => CopyTruncation ]_allVars

\* three bytes asked for, two copied from an untyped block into a two-byte
\* element elsewhere in the array
C25_Witness ==
    /\ bop.op = "copy" /\ bop.T1 = "void" /\ bop.T2 = "uint16_t"
    /\ bop.n = 3 /\ bop.x.s_ = 2 /\ bop.y.s_ = 1 /\ bop.r = 2
    /\ bop.y.p_ >= bop.x.p_ + 2
    /\ mem[bop.x.p_ + 1] = 1 /\ mem[bop.y.p_ + 1] = 1

(***************************************************************************)
(* Shared_ptr and Weak_ptr (PtrSpec).  The claims speak of a program for   *)
(* as long as its behaviour is defined (ub = "none").                      *)
(***************************************************************************)
\* the live Shared_ptr objects attached to the control block c
Attached(c) == {x \in SharedSlots \cap made : sp[x].cb_ = c}

\* the live Weak_ptr objects observing the control block c
Observing(c) == {x \in WeakSlots \cap made : wp[x].cb_ = c}

UseCountIsOwners ==
    \A c \in DOMAIN cbs : cbs[c].use_count = Cardinality(Attached(c))

UseCountSteps ==
    /\ \A x, y \in SharedSlots :
          /\ (sp[y].cb_ # Null /\ x \in made' \ made /\ SharedCopy(x, y))
                => /\ use_count(sp'[x], M') = use_count(sp[y], M) + 1
                   /\ use_count(sp'[y], M') = use_count(sp[y], M) + 1
          /\ (x \in made' \ made /\ SharedMove(x, y))
                => /\ cbs' = cbs
                   /\ sp'[x] = sp[y]
                   /\ use_count(sp'[y], M') = 0 /\ sp'[y].ptr_ = Null
    /\ \A x \in SharedSlots :
          (/\ sp[x].cb_ # Null /\ sp'[x] = Empty_ptr /\ ub' = "none"
           /\ (SharedDestroy(x) \/ SharedReset(x)))
                => IF sp[x].cb_ \in DOMAIN cbs'
                   THEN cbs'[sp[x].cb_].use_count = cbs[sp[x].cb_].use_count - 1
                   ELSE cbs[sp[x].cb_].use_count = 1

Destroyed == (DOMAIN objs) \ (DOMAIN objs')

\* the use_count of the control block of the pointee p, 0 once it is gone
UseCount(blocks, c, p) ==
    IF c \in DOMAIN blocks /\ blocks[c].obj = p THEN blocks[c].use_count ELSE 0

PointeeSteps ==
    /\ ub' \notin {"object not alive", "memory not allocated"}
    /\ \A p \in Destroyed :
          UseCount(cbs, objs[p].cb, p) = 1 /\ UseCount(cbs', objs[p].cb, p) = 0
    /\ \A p \in (DOMAIN objs) \ Destroyed :
          UseCount(cbs, objs[p].cb, p) > 0 => UseCount(cbs', objs[p].cb, p) > 0
    /\ \A p \in DOMAIN objs : p \in heap

\* C27: a step destroys a pointee only by taking the use_count of its control
\* block from 1 to 0, every step that takes it from 1 to 0 destroys the
\* pointee and releases its memory, and no step destroys or releases a
\* pointee that is already gone
C27_PointeeOnce == [][PointeeSteps]_allVars

\* the live pointer objects of either kind that point at the control block c
Pointing(c) == Attached(c) \cup Observing(c)

\* every control block a live pointer object points at is alive
ControlBlocksValid ==
    /\ \A x \in SharedSlots \cap made : sp[x].cb_ # Null => sp[x].cb_ \in DOMAIN cbs
    /\ \A x \in WeakSlots \cap made : wp[x].cb_ # Null => wp[x].cb_ \in DOMAIN cbs

\* a control block is alive in allocated memory, and only for as long as one
\* of its counts is not zero
ControlBlocksCounted ==
    \A c \in DOMAIN cbs :
        c \in heap /\ (cbs[c].use_count > 0 \/ cbs[c].weak_count > 0)

\* a control block goes away with the last pointer object that points at it
ControlBlocksReleased == \A c \in DOMAIN cbs : Pointing(c) # {}

\* a Weak_ptr whose owners are all gone reads use_count() = 0
WindowReadsZero ==
    \A x \in WeakSlots \cap made :
        (wp[x].cb_ # Null /\ Attached(wp[x].cb_) = {}) => use_count(wp[x], M) = 0

ControlBlockSteps == ub' \notin {"control block not alive", "memory not allocated"}

\* C28: a control block is alive for as long as a live Shared_ptr or Weak_ptr
\* points at it and is released, once, by the step that leaves both its counts
\* at zero, which is the step in which the last pointer object pointing at it
\* goes away; while only Weak_ptr objects are left they read use_count() = 0
C28_ControlBlock ==
    /\ [](ub = "none" => /\ ControlBlocksValid
                         /\ ControlBlocksCounted
                         /\ ControlBlocksReleased
                         /\ WindowReadsZero)
    /\ [][ControlBlockSteps]_allVars

WeakCountIsObservers ==
    \A c \in DOMAIN cbs : cbs[c].weak_count = Cardinality(Observing(c))

\* the step changes no use_count: the control blocks alive before and after
\* it keep theirs, and none comes or goes with a count other than zero
UseCountsKept ==
    \A c \in (DOMAIN cbs) \cup (DOMAIN cbs') :
        IF c \in DOMAIN cbs /\ c \in DOMAIN cbs'
        THEN cbs'[c].use_count = cbs[c].use_count
        ELSE IF c \in DOMAIN cbs THEN cbs[c].use_count = 0
        ELSE cbs'[c].use_count = 0

\* a step of a Weak_ptr operation other than lock()
WeakStep ==
    \/ \E x \in WeakSlots : WeakCtor(x) \/ WeakReset(x) \/ WeakDestroy(x)
    \/ \E x \in WeakSlots, y \in SharedSlots \cup WeakSlots : WeakCopy(x, y)
    \/ \E x \in WeakSlots, y \in SharedSlots : WeakAssignShared(x, y)
    \/ \E x, y \in WeakSlots :
          WeakAssign(x, y) \/ WeakMove(x, y) \/ WeakMoveAssign(x, y)

\* C29: in every state, the weak_count of every control block is the number
\* of live Weak_ptr objects observing it, and no Weak_ptr operation other than
\* lock() changes a use_count
C29_WeakCount ==
    /\ [](ub = "none" => WeakCountIsObservers)
    /\ [][WeakStep => UseCountsKept]_allVars

LockSteps ==
    \A x \in SharedSlots, y \in WeakSlots :
        WeakLock(x, y)
            => IF expired(wp[y], M)
               THEN /\ sp'[x].ptr_ = Null /\ use_count(sp'[x], M') = 0
                    /\ cbs' = cbs
               ELSE /\ sp'[x].ptr_ = wp[y].ptr_ /\ sp'[x].ptr_ \in DOMAIN objs
                    /\ use_count(sp'[x], M') = use_count(wp[y], M) + 1

\* C30: lock() on an expired Weak_ptr, never bound or left behind by its
\* owners, returns a Shared_ptr with get() = null and use_count() = 0 and
\* changes no count; on one that is not expired it returns a Shared_ptr to the
\* same, live pointee and raises the use_count by one
C30_Lock == [][LockSteps]_allVars

(***************************************************************************)
(* The aliasing constructor used directly, as the test "aliasing" of       *)
(* LW_Shared_ptr.copy uses it: the caller makes an object of its own, not  *)
(* with the allocator, and builds a Shared_ptr that points at it and       *)
(* shares the control block of another Shared_ptr.                         *)
(***************************************************************************)
\* the address of the object the caller makes itself: int* p = new int{200}
Raw_ptr == 400

\* int* p = new int{200};  Shared_ptr<T> x{y, p};
\* (p is the same object when the caller aliases twice)
SharedAlias(x, y) ==
    /\ Step /\ Fresh(SharedNames, x) /\ y \in made
    /\ LET m == [M EXCEPT !.objs = IF Raw_ptr \in DOMAIN @ THEN @
                                   ELSE (Raw_ptr :> [cb |-> Null]) @@ @]
           o == Shared_ptr_alias(sp[y], Raw_ptr, m)
       IN  /\ sp' = [sp EXCEPT ![x] = o[1]]
           /\ PtrStore(o[2])
    /\ made' = made \cup {x}
    /\ UNCHANGED <<wp, up>>

AliasNext ==
    \/ \E x \in SharedSlots : SharedCtor(x)
    \/ \E x, y \in SharedSlots : SharedAlias(x, y)
    \/ \E x, y \in SharedSlots : SharedCopy(x, y)
    \/ \E x \in SharedSlots : SharedReset(x)
    \/ \E x \in SharedSlots : SharedDestroy(x)

AliasSpec == PtrInit /\ [][AliasNext]_allVars

\* Shared(orig, raw) of an orig that owns: get() = raw, orig's control block,
\* and every sharer reads one more than orig's use_count before
AliasMade ==
    \A x, y \in SharedSlots :
        (y \in made /\ sp[y].cb_ # Null /\ sp[y].ptr_ # Null /\ SharedAlias(x, y))
            => /\ sp'[x].ptr_ = Raw_ptr
               /\ sp'[x].cb_ = sp[y].cb_
               /\ \A z \in SharedSlots \cap made' :
                     sp'[z].cb_ = sp[y].cb_
                         => use_count(sp'[z], M') = use_count(sp[y], M) + 1

\* the step that drops the last sharer of a control block destroys the
\* pointee the block was made for and releases its memory
FateShared ==
    \A c \in DOMAIN cbs :
        (cbs[c].use_count > 0 /\ UseCount(cbs', c, cbs[c].obj) = 0)
            => cbs[c].obj \notin DOMAIN objs' /\ cbs[c].obj \notin heap'

\* the caller's object is not destroyed, nor handed to the allocator
RawKept ==
    Raw_ptr \in DOMAIN objs
        => Raw_ptr \in DOMAIN objs' /\ ub' # "memory not allocated"

\* C31: Shared(orig, raw) has get() = raw and shares orig's control block,
\* whose use_count becomes one more for all sharers; whichever sharer is
\* dropped last, the step destroys and releases the pointee that was managed
\* from the start, and no step destroys raw or hands it to the allocator
C31_Aliasing == [][AliasMade /\ FateShared /\ RawKept]_allVars

(***************************************************************************)
(* pointers.h: Unique_ptr<T, Internal_allocator>.  A Unique_ptr object is  *)
(* its ptr_ (its allocator_ has no state here).  The operations work on    *)
(* the memory state m of the Shared_ptr operations.                        *)
(***************************************************************************)
\* Unique_ptr::remove_reference: set of <<ptr_, the memory>> afterwards
Unique_remove_reference(t, ptr, m) ==
    IF ~Defined(m) \/ ptr = Null THEN {<<ptr, m>>}
    ELSE { <<Null, m2>> : m2 \in Release(t, destruct_at_T(m, ptr), sizeof_T, ptr) }

\* make_unique<T, Internal_allocator>(args...): set of <<ptr_, the memory>>
make_unique(t, m) == NewObject(t, m)

\* faulty variant: the source keeps its pointer
Unique_ptr_move_shared(other) == <<other, other>>

\* Unique_ptr(Unique_ptr&& other): <<ptr_, other.ptr_ afterwards>>
Unique_ptr_move(other) == <<other, Null>>

\* operator=(Unique_ptr&& other); self: this == &other.
\* Set of <<ptr_, other.ptr_ afterwards, the memory>>
Unique_ptr_move_assign(t, this, other, self, m) ==
    IF self THEN {<<this, other, m>>}
    ELSE { <<other, Null, x[2]>> : x \in Unique_remove_reference(t, this, m) }

\* reset()
Unique_ptr_reset(t, this, m) ==
    { <<Null, x[2]>> : x \in Unique_remove_reference(t, this, m) }

\* release(): <<ptr_ afterwards, the pointer returned>>
Unique_ptr_release(this) == <<Null, this>>

\* reset(T_o* ptr): reset() if ptr is null, then remove_reference(); ptr_ = ptr
Unique_ptr_reset_ptr(t, this, ptr, m) ==
    UNION { { <<ptr, y[2]>> : y \in Unique_remove_reference(t, x[1], x[2]) }
            : x \in IF ptr = Null THEN Unique_ptr_reset(t, this, m)
                    ELSE {<<this, m>>} }

\* Shared_ptr(Unique_ptr&& other): Shared_ptr(other.release()).
\* Set of <<the Shared_ptr, other.ptr_ afterwards, the memory>>
Shared_ptr_from_unique(t, other, m) ==
    LET r == Unique_ptr_release(other)
    IN  { <<x[1], r[1], x[2]>> : x \in Shared_ptr_ctor(t, r[2], m) }

\* Shared_ptr::operator=(Unique_ptr&& other): reset(other.release())
Shared_ptr_assign_unique(t, this, other, m) ==
    LET r == Unique_ptr_release(other)
    IN  { <<x[1], r[1], x[2]>> : x \in Shared_ptr_reset_ptr(t, this, r[2], m) }

(***************************************************************************)
(* The program that uses Unique_ptr objects over Malloc_allocator, and     *)
(* turns them into Shared_ptr objects.                                     *)
(***************************************************************************)
\* Unique_ptr<T> x{};  auto x = make_unique<T>(...);
UniqueCtor(x) ==
    /\ Step /\ Fresh(UniqueNames, x)
    /\ \E o \in {<<Null, M>>} \cup make_unique(type_, M) :
          /\ up' = [up EXCEPT ![x] = o[1]]
          /\ PtrStore(o[2])
    /\ made' = made \cup {x}
    /\ UNCHANGED <<sp, wp>>

\* Unique_ptr<T> x{std::move(y)};
UniqueMove(x, y) ==
    /\ Step /\ Fresh(UniqueNames, x) /\ y \in made
    /\ LET o == Unique_ptr_move(up[y])
       IN  up' = [up EXCEPT ![x] = o[1], ![y] = o[2]]
    /\ PtrStore(M)
    /\ made' = made \cup {x}
    /\ UNCHANGED <<sp, wp>>

\* x = std::move(y);
UniqueMoveAssign(x, y) ==
    /\ Step /\ x \in made /\ y \in made
    /\ \E o \in Unique_ptr_move_assign(type_, up[x], up[y], x = y, M) :
          /\ up' = IF x = y THEN [up EXCEPT ![x] = o[1]]
                   ELSE [up EXCEPT ![x] = o[1], ![y] = o[2]]
          /\ PtrStore(o[3])
    /\ UNCHANGED <<sp, wp, made>>

\* x.reset();
UniqueReset(x) ==
    /\ Step /\ x \in made
    /\ \E o \in Unique_ptr_reset(type_, up[x], M) :
          /\ up' = [up EXCEPT ![x] = o[1]]
          /\ PtrStore(o[2])
    /\ UNCHANGED <<sp, wp, made>>

\* x.reset(ptr);
UniqueResetPtr(x) ==
    /\ Step /\ x \in made
    /\ \E r \in Raw(M) : \E o \in Unique_ptr_reset_ptr(type_, up[x], r[1], r[2]) :
          /\ up' = [up EXCEPT ![x] = o[1]]
          /\ PtrStore(o[2])
    /\ UNCHANGED <<sp, wp, made>>

\* T* p = x.release();  (the object is the caller's from here on)
UniqueRelease(x) ==
    /\ Step /\ x \in made
    /\ up' = [up EXCEPT ![x] = Unique_ptr_release(up[x])[1]]
    /\ PtrStore(M)
    /\ UNCHANGED <<sp, wp, made>>

\* the end of x's lifetime: ~Unique_ptr()
UniqueDestroy(x) ==
    /\ Step /\ x \in made
    /\ \E o \in Unique_remove_reference(type_, up[x], M) : PtrStore(o[2])
    /\ up' = [up EXCEPT ![x] = Null]
    /\ made' = made \ {x}
    /\ UNCHANGED <<sp, wp>>

\* Shared_ptr<T> x{std::move(y)};  y a Unique_ptr
SharedFromUnique(x, y) ==
    /\ Step /\ Fresh(SharedNames, x) /\ y \in made
    /\ \E o \in Shared_ptr_from_unique(type_, up[y], M) :
          /\ sp' = [sp EXCEPT ![x] = o[1]]
          /\ up' = [up EXCEPT ![y] = o[2]]
          /\ PtrStore(o[3])
    /\ made' = made \cup {x}
    /\ UNCHANGED wp

\* x = std::move(y);  x a Shared_ptr, y a Unique_ptr
SharedAssignUnique(x, y) ==
    /\ Step /\ x \in made /\ y \in made
    /\ \E o \in Shared_ptr_assign_unique(type_, sp[x], up[y], M) :
          /\ sp' = [sp EXCEPT ![x] = o[1]]
          /\ up' = [up EXCEPT ![y] = o[2]]
          /\ PtrStore(o[3])
    /\ UNCHANGED <<wp, made>>

UniqueNext ==
    \/ \E x \in UniqueSlots : UniqueCtor(x)
    \/ \E x, y \in UniqueSlots : UniqueMove(x, y)
    \/ \E x, y \in UniqueSlots : UniqueMoveAssign(x, y)
    \/ \E x \in UniqueSlots : UniqueReset(x)
    \/ \E x \in UniqueSlots : UniqueResetPtr(x)
    \/ \E x \in UniqueSlots : UniqueRelease(x)
    \/ \E x \in UniqueSlots : UniqueDestroy(x)
    \/ \E x \in SharedSlots, y \in UniqueSlots : SharedFromUnique(x, y)
    \/ \E x \in SharedSlots, y \in UniqueSlots : SharedAssignUnique(x, y)
    \/ \E x, y \in SharedSlots : SharedCopy(x, y)
    \/ \E x \in SharedSlots : SharedDestroy(x)

UniqueSpec == PtrInit /\ [][UniqueNext]_allVars

\* the live Unique_ptr objects that hold the pointee p
Holders(p) == {x \in UniqueSlots \cap made : up[x] = p}

\* no pointee is held by two Unique_ptr objects, and a held pointee is alive
UniqueHolds ==
    /\ ub = "none"
    /\ \A x \in UniqueSlots \cap made :
          up[x] # Null
              => Holders(up[x]) = {x} /\ up[x] \in DOMAIN objs /\ up[x] \in heap

\* x gives its pointee away in this step: release(), or a Shared_ptr takes it
GivesAway(x) ==
    \/ UniqueRelease(x)
    \/ \E z \in SharedSlots : SharedFromUnique(z, x) \/ SharedAssignUnique(z, x)

UniqueSteps ==
    /\ \A x, y \in UniqueSlots :
          /\ UniqueMove(x, y) => up'[x] = up[y] /\ up'[y] = Null /\ objs' = objs
          /\ (x # y /\ UniqueMoveAssign(x, y)) => up'[x] = up[y] /\ up'[y] = Null
    /\ \A y \in UniqueSlots :
          /\ GivesAway(y)
                => /\ up'[y] = Null
                   /\ up[y] # Null => up[y] \in DOMAIN objs' /\ up[y] \in heap'
          /\ \A x \in SharedSlots :
                (up[y] # Null /\ (SharedFromUnique(x, y) \/ SharedAssignUnique(x, y)))
                    => sp'[x].ptr_ = up[y] /\ use_count(sp'[x], M') = 1
    /\ \A p \in DOMAIN objs :
          /\ (Holders(p) # {} /\ Holders(p)' = {} /\ ~\E x \in Holders(p) : GivesAway(x))
                => p \notin DOMAIN objs' /\ p \notin heap'
          /\ (Holders(p) # {} /\ Holders(p)' # {}) => p \in DOMAIN objs'
          /\ p \in Destroyed
                => \/ Holders(p) # {} /\ Holders(p)' = {}
                   \/ UseCount(cbs, objs[p].cb, p) = 1 /\ UseCount(cbs', objs[p].cb, p) = 0

\* C32: no pointee is ever held by two Unique_ptr objects; a move leaves the
\* source empty and the destination holding the pointee; release() and the
\* conversion into a Shared_ptr empty the Unique_ptr and destroy nothing (the
\* Shared_ptr reads use_count 1); and the step in which a pointee loses its
\* holder otherwise destroys and releases it, once, no step destroying a
\* pointee that is still held or already gone
C32_Unique == []UniqueHolds /\ [][UniqueSteps]_allVars

\* both Unique_ptr objects are alive, one of them empty and the other holding
\* a pointee, and a Shared_ptr owns a pointee alone
C32_Witness ==
    /\ ub = "none"
    /\ UniqueSlots \subseteq made
    /\ \E x, y \in UniqueSlots : up[x] # Null /\ up[y] = Null
    /\ \E x \in SharedSlots \cap made : sp[x].ptr_ # Null /\ use_count(sp[x], M) = 1

(***************************************************************************)
(* The pointer program over Fallback_allocator<Stack_allocator,            *)
(* Malloc_allocator>.  The stacks are static: every Stack_allocator of the *)
(* process bumps the same pointers, so other code of the process takes     *)
(* room from them too.                                                     *)
(***************************************************************************)
FallbackPtrInit ==
    /\ AllocInit({"Fallback<Stack,Malloc>"})
    /\ mem = <<>>
    /\ bop = NoBlockOp
    /\ NoPointers
    /\ buf = NoBuffers
    /\ ref = NoRef

\* other code: Stack_allocator{}.allocate(s), a whole buffer or all of it but
\* the room of one T
StackUse ==
    /\ Step
    /\ \E s \in {Buffer_size, Buffer_size - sizeof_T} :
          \E o \in allocate("Stack", create("Stack"), M.g, s) :
              /\ o.r.ok
              /\ PtrStore([M EXCEPT !.g = o.g])
    /\ UNCHANGED <<sp, wp, up, made>>

FallbackPtrNext ==
    \/ StackUse
    \/ \E x \in SharedSlots : SharedCtor(x)
    \/ \E x, y \in SharedSlots : SharedCopy(x, y)
    \/ \E x \in SharedSlots : SharedReset(x)
    \/ \E x \in SharedSlots : SharedDestroy(x)
    \/ \E x \in UniqueSlots : UniqueCtor(x)
    \/ \E x \in UniqueSlots : UniqueReset(x)
    \/ \E x \in UniqueSlots : UniqueDestroy(x)

FallbackPtrSpec == FallbackPtrInit /\ [][FallbackPtrNext]_allVars

\* the pointees and the control blocks the step destroys
Dropped == Destroyed \cup ((DOMAIN cbs) \ (DOMAIN cbs'))

\* the block at p of s bytes is the last one stack_malloc handed out
Top(p, s) == \E i \in Stacks : p = ptrs_[i] - s

\* what the step destroys goes back to where it came from: std::free has
\* taken the memory std::malloc gave, and the stack whose last block it was
\* has taken that back
Returned ==
    /\ \A p \in Dropped : p \notin heap'
    /\ \A p \in Destroyed :
          Top(p, sizeof_T) => \E i \in Stacks : ptrs_'[i] <= p /\ p < ptrs_[i]
    /\ \A c \in (DOMAIN cbs) \ (DOMAIN cbs') :
          Top(c, sizeof_Control_block) => \E i \in Stacks : ptrs_'[i] <= c /\ c < ptrs_[i]

\* C33: when a Unique_ptr or the last Shared_ptr over Fallback<Stack, Malloc>
\* drops its pointee, the pointee's block and the control block go back to
\* the allocator that produced them: none served by Malloc stays allocated,
\* and a stack takes back the block it handed out last
C33_Returned == [][Returned]_allVars

(***************************************************************************)
(* buffers.h.  A buffer type is the string of its template instantiation.  *)
(* A Stack_buffer or an Allocated_buffer object is its data_ (the bytes    *)
(* are not followed; the allocators used here keep no state in the         *)
(* allocator_ member); a Fallback_buffer is use_primary_ and the member    *)
(* of its union that is in use; a Typed_buffer is its internal_.  The      *)
(* address of a Stack_buffer's memory_ is passed as self.  The memory      *)
(* state bm the operations work on:                                        *)
(*      g      the machine state of the allocators,                        *)
(*      elems  the T objects alive in buffers, as <<address of the first   *)
(*             slot, index>>,                                              *)
(*      ub     "none", or the undefined behaviour met,                     *)
(*      calls  the allocate calls of the operation: size and success.      *)
(* A constructor yields the set of its outcomes: a buffer, or the          *)
(* exception it leaves with.                                               *)
(***************************************************************************)
Stack_size == 2          \* template <std::int64_t Stack_size = 2>
type_bytes_size_ == 2    \* MEMOC_SSIZEOF(T) of the element types: two bytes

BufferTypes ==
    {"Stack_buffer", "Allocated_buffer<Malloc>", "Allocated_buffer<Stack>",
     "Fallback_buffer<Stack_buffer,Allocated_buffer<Malloc>>",
     "Fallback_buffer<Stack_buffer,Allocated_buffer<Stack>>",
     "Typed_buffer<S,Allocated_buffer<Malloc>>",
     "Typed_buffer<uint16_t,Allocated_buffer<Malloc>>",
     "Typed_buffer<S,Stack_buffer>"}

BufferKind(T) ==
    CASE T = "Stack_buffer" -> "Stack_buffer"
      [] T \in {"Allocated_buffer<Malloc>", "Allocated_buffer<Stack>"} -> "Allocated_buffer"
      [] T \in {"Fallback_buffer<Stack_buffer,Allocated_buffer<Malloc>>",
                "Fallback_buffer<Stack_buffer,Allocated_buffer<Stack>>"} -> "Fallback_buffer"
      [] OTHER -> "Typed_buffer"

\* Internal_allocator of an Allocated_buffer, or of the Fallback of a
\* Fallback_buffer
AllocatorOf(T) ==
    IF T \in {"Allocated_buffer<Stack>",
              "Fallback_buffer<Stack_buffer,Allocated_buffer<Stack>>"}
    THEN "Stack" ELSE "Malloc"

\* Internal_buffer of a Typed_buffer
InternalOf(T) ==
    IF T = "Typed_buffer<S,Stack_buffer>" THEN "Stack_buffer"
    ELSE "Allocated_buffer<Malloc>"

\* std::is_fundamental_v<T> of a Typed_buffer<T, ...>
Fundamental(T) == T = "Typed_buffer<uint16_t,Allocated_buffer<Malloc>>"

Built(v, bm) == [ok |-> TRUE, ex |-> "none", v |-> v, bm |-> bm]

Thrown(e, bm) == [ok |-> FALSE, ex |-> e, v |-> <<>>, bm |-> bm]

\* what erroc's Expected::value() leaves with when it holds an error
bad_value == "runtime_error"

\* allocator_.allocate(size).value(): the block, or the exception of value()
Expected_value(t, size, bm) ==
    { LET bm2 == [bm EXCEPT !.g = o.g,
                            !.calls = Append(@, [s |-> size, ok |-> o.r.ok])]
      IN  IF o.r.ok THEN Built(o.r.b, bm2) ELSE Thrown(bad_value, bm2)
      : o \in allocate(t, create(t), bm.g, size) }

\* allocator_.deallocate(b)
Given_back(t, b, bm) ==
    { [bm EXCEPT !.g = o.g] : o \in deallocate(t, create(t), bm.g, b) }

\* faulty variant: every size that is not negative is taken
Stack_buffer_ctor_unbounded(self, size, bm) ==
    IF size >= 0
    THEN {Built([data_ |-> Block(size, self, hint_min)], bm)}
    ELSE {Thrown("invalid_argument", bm)}

\* Stack_buffer(size, data)
Stack_buffer_ctor(self, size, bm) ==
    IF size >= 0 /\ size <= Stack_size
    THEN {Built([data_ |-> Block(size, self, hint_min)], bm)}
    ELSE {Thrown("invalid_argument", bm)}

\* Stack_buffer::operator=(const Stack_buffer&), and the move assignment,
\* which calls it: the buffer afterwards
Stack_buffer_assign(self, other) == [data_ |-> Block(other.data_.s_, self, hint_min)]

\* faulty variant: the size is not tested
Allocated_buffer_ctor_unchecked(t, size, bm) ==
    { IF r.ok THEN Built([data_ |-> r.v], r.bm) ELSE r
      : r \in Expected_value(t, size, bm) }

\* Allocated_buffer(size, data)
Allocated_buffer_ctor(t, size, bm) ==
    IF size < 0 THEN {Thrown("invalid_argument", bm)}
    ELSE { IF r.ok THEN Built([data_ |-> r.v], r.bm) ELSE r
           : r \in Expected_value(t, size, bm) }

\* Allocated_buffer::operator=(Allocated_buffer&& other), this # &other:
\* set of <<the buffer, other afterwards, the memory>>
Allocated_buffer_move_assign(t, this, other, bm) ==
    { <<[data_ |-> other.data_], [data_ |-> EmptyBlock], bm2>>
      : bm2 \in Given_back(t, this.data_, bm) }

\* ~Allocated_buffer()
Allocated_buffer_dtor(t, this, bm) ==
    IF empty(this.data_) THEN {bm} ELSE Given_back(t, this.data_, bm)

\* Fallback_buffer(size, data): the members are assigned from temporaries,
\* over the zeroed bytes of the union
Fallback_buffer_ctor(T, self, size, bm) ==
    UNION { IF p.ok
            THEN {Built([use_primary_ |-> TRUE,
                         member |-> Stack_buffer_assign(self, p.v)], p.bm)}
            ELSE UNION { IF f.ok
                         THEN { Built([use_primary_ |-> FALSE, member |-> x[1]], x[3])
                                : x \in Allocated_buffer_move_assign(
                                            AllocatorOf(T), [data_ |-> EmptyBlock],
                                            f.v, f.bm) }
                         ELSE {f}
                         : f \in Allocated_buffer_ctor(AllocatorOf(T), size, p.bm) }
            : p \in Stack_buffer_ctor(self, size, bm) }

\* the constructor of a buffer that is not a Typed_buffer
Internal_ctor(T, self, size, bm) ==
    CASE BufferKind(T) = "Stack_buffer" -> Stack_buffer_ctor(self, size, bm)
      [] BufferKind(T) = "Allocated_buffer" ->
            Allocated_buffer_ctor(AllocatorOf(T), size, bm)
      [] BufferKind(T) = "Fallback_buffer" -> Fallback_buffer_ctor(T, self, size, bm)

\* block() of a buffer that is not a Typed_buffer
Internal_block(T, v) ==
    IF BufferKind(T) = "Fallback_buffer" THEN v.member.data_ ELSE v.data_

\* Typed_buffer::block(): internal_bytes_size_ is 1
Typed_block(T, v) ==
    LET b == Internal_block(InternalOf(T), v)
    IN  Block(b.s_ \div type_bytes_size_, b.p_, hint_min)

\* the slots of a block of elements
Slots(b) == { <<b.p_, i>> : i \in 0 .. (b.s_ - 1) }

\* Typed_buffer(size, data)
Typed_buffer_ctor(T, self, size, bm) ==
    { IF ~r.ok \/ Internal_block(InternalOf(T), r.v).s_ <= 0 \/ Fundamental(T) THEN r
      ELSE Built(r.v, [r.bm EXCEPT !.elems = @ \cup Slots(Typed_block(T, r.v))])
      : r \in Internal_ctor(InternalOf(T), self,
                            IF size > 0 THEN size * type_bytes_size_ ELSE size, bm) }

Buffer_ctor(T, self, size, bm) ==
    IF BufferKind(T) = "Typed_buffer" THEN Typed_buffer_ctor(T, self, size, bm)
    ELSE Internal_ctor(T, self, size, bm)

\* size() of a buffer
Buffer_size_of(T, v) ==
    IF BufferKind(T) = "Typed_buffer" THEN Typed_block(T, v).s_
    ELSE Internal_block(T, v).s_

\* empty() of a buffer
Buffer_empty(T, v) ==
    IF BufferKind(T) = "Typed_buffer"
    THEN Internal_block(InternalOf(T), v).s_ <= 0
    ELSE empty(Internal_block(T, v))

\* create<T>(size, data): the constructor's outcome as a value
create_buffer(T, self, size, bm) ==
    { IF r.ok THEN r
      ELSE [r EXCEPT !.ex = CASE r.ex = "invalid_argument" -> "invalid_size"
                              [] r.ex = "runtime_error" -> "allocator_failure"
                              [] OTHER -> "unknown"]
      : r \in Buffer_ctor(T, self, size, bm) }

\* Stack_buffer(Stack_buffer&& other), operator=(Stack_buffer&& other):
\* <<the buffer, other afterwards>>
Stack_buffer_move(self, other) ==
    <<Stack_buffer_assign(self, other), [data_ |-> EmptyBlock]>>

\* Allocated_buffer(const Allocated_buffer& other)
Allocated_buffer_copy(t, other, bm) ==
    IF empty(other.data_) THEN {Built([data_ |-> EmptyBlock], bm)}
    ELSE { IF r.ok THEN Built([data_ |-> r.v], r.bm) ELSE r
           : r \in Expected_value(t, other.data_.s_, bm) }

\* Allocated_buffer::operator=(const Allocated_buffer& other), this # &other.
\* It returns *this by value: a copy that is made and destroyed.
Allocated_buffer_assign(t, this, other, bm) ==
    UNION { IF empty(other.data_) THEN {Built([data_ |-> EmptyBlock], bm2)}
            ELSE UNION { IF ~r.ok THEN {[r EXCEPT !.v = [data_ |-> EmptyBlock]]}
                         ELSE UNION { IF ~c.ok THEN {[c EXCEPT !.v = [data_ |-> r.v]]}
                                      ELSE { Built([data_ |-> r.v], bm3)
                                             : bm3 \in Allocated_buffer_dtor(t, c.v, c.bm) }
                                      : c \in Allocated_buffer_copy(t, [data_ |-> r.v], r.bm) }
                         : r \in Expected_value(t, other.data_.s_, bm2) }
            : bm2 \in Given_back(t, this.data_, bm) }

\* Allocated_buffer(Allocated_buffer&& other): <<the buffer, other afterwards>>
Allocated_buffer_move(other) ==
    IF empty(other.data_) THEN <<[data_ |-> EmptyBlock], other>>
    ELSE <<[data_ |-> other.data_], [data_ |-> EmptyBlock]>>

\* the copy constructor of a Typed_buffer's internal_
Internal_copy(T, self, other, bm) ==
    IF BufferKind(T) = "Stack_buffer" THEN {Built(Stack_buffer_assign(self, other), bm)}
    ELSE Allocated_buffer_copy(AllocatorOf(T), other, bm)

\* internal_ = other.internal_
Internal_assign(T, self, this, other, bm) ==
    IF BufferKind(T) = "Stack_buffer" THEN {Built(Stack_buffer_assign(self, other), bm)}
    ELSE Allocated_buffer_assign(AllocatorOf(T), this, other, bm)

\* the destructor of a buffer that is not a Typed_buffer
Internal_dtor(T, this, bm) ==
    CASE BufferKind(T) = "Stack_buffer" -> {bm}
      [] BufferKind(T) = "Allocated_buffer" ->
            Allocated_buffer_dtor(AllocatorOf(T), this, bm)
      [] BufferKind(T) = "Fallback_buffer" ->
            IF this.use_primary_ THEN {bm}
            ELSE Allocated_buffer_dtor(AllocatorOf(T), this.member, bm)

\* ~Typed_buffer(): destruct_at on every slot of block(), then ~Internal_buffer
Typed_buffer_dtor(T, this, bm) ==
    LET slots == Slots(Typed_block(T, this))
        bm2 == IF Fundamental(T) THEN bm
               ELSE IF slots \subseteq bm.elems
               THEN [bm EXCEPT !.elems = @ \ slots]
               ELSE Undefined(bm, "object not alive")
    IN  IF Defined(bm2) THEN Internal_dtor(InternalOf(T), this, bm2) ELSE {bm2}

\* Typed_buffer(const Typed_buffer& other)
Typed_buffer_copy(T, self, other, bm) == Internal_copy(InternalOf(T), self, other, bm)

\* the address of the memory_ of a temporary Stack_buffer
Temp_home == 590

\* Typed_buffer::operator=(const Typed_buffer& other), this # &other.  It
\* returns *this by value: a Typed_buffer that is copied and destroyed.
Typed_buffer_assign(T, self, this, other, bm) ==
    UNION { IF ~r.ok THEN {r}
            ELSE UNION { IF ~c.ok THEN {[c EXCEPT !.v = r.v]}
                         ELSE { Built(r.v, bm3) : bm3 \in Typed_buffer_dtor(T, c.v, c.bm) }
                         : c \in Typed_buffer_copy(T, Temp_home, r.v, r.bm) }
            : r \in Internal_assign(InternalOf(T), self, this, other, bm) }

\* Typed_buffer(Typed_buffer&& other): <<the buffer, other afterwards>>
Typed_buffer_move(T, self, other) ==
    IF InternalOf(T) = "Stack_buffer" THEN Stack_buffer_move(self, other)
    ELSE Allocated_buffer_move(other)

\* Typed_buffer::operator=(Typed_buffer&& other), this # &other:
\* set of <<the buffer, other afterwards, the memory>>
Typed_buffer_move_assign(T, self, this, other, bm) ==
    IF InternalOf(T) = "Stack_buffer"
    THEN {<<Stack_buffer_assign(self, other), [data_ |-> EmptyBlock], bm>>}
    ELSE Allocated_buffer_move_assign(AllocatorOf(InternalOf(T)), this, other, bm)

\* the destructor of a buffer
Buffer_dtor(T, this, bm) ==
    IF BufferKind(T) = "Typed_buffer" THEN Typed_buffer_dtor(T, this, bm)
    ELSE Internal_dtor(T, this, bm)

(***************************************************************************)
(* The program that creates buffers of every type with create, copies,     *)
(* moves and assigns Typed_buffer objects, and destroys them.              *)
(***************************************************************************)
BufNames == {"b1", "b2"}

\* the address of the memory_ of the buffer object named x
Buf_base == 500

Home(x) == IF x = "b1" THEN Buf_base ELSE Buf_base + 16

\* the sizes the caller asks for: negative, none, within and over the
\* in-place capacity, over what a stack of the Stack_allocator holds
BufSizes == {-1, 0, 1, Stack_size, Stack_size + 1, Buffer_size + 1}

\* the memory state the buffer operations work on
BM == [g |-> M.g, elems |-> buf.elems, ub |-> buf.ub, calls |-> <<>>]

BufLive == DOMAIN buf.live

\* operations the buffer program makes in a run
MaxBufSteps == 4

\* one more operation of a program that is still defined
BufStep == buf.ub = "none" /\ buf.steps < MaxBufSteps

\* the state after an operation: the buffers alive, the memory, the call
BufStore(live2, bm, call) ==
    /\ buf' = [live  |-> live2,
               elems |-> bm.elems,
               ub    |-> bm.ub,
               last  |-> call,
               steps |-> buf.steps + 1]
    /\ Store(bm.g)
    /\ UNCHANGED <<inst, alive, copy_, live, by, last, scen, hist, blockVars, ptrVars,
                   refVars>>

\* f with the buffer named x set to the object v of type T
With(f, x, T, v) == (x :> [T |-> T, v |-> v]) @@ f

\* f without the buffer named x
Without(f, x) == [y \in (DOMAIN f) \ {x} |-> f[y]]

\* a call and its outcome
BufCall(op, T, size, r) ==
    [op |-> op, T |-> T, size |-> size, ok |-> r.ok, ex |-> r.ex,
     calls |-> r.bm.calls,
     n |-> IF r.ok THEN Buffer_size_of(T, r.v) ELSE 0,
     e |-> IF r.ok THEN Buffer_empty(T, r.v) ELSE TRUE,
     in_place |-> r.ok /\ BufferKind(T) = "Fallback_buffer" /\ r.v.use_primary_]

\* auto r = create<T>(size);  on success the buffer is kept as x
BufCreate(x, T, size) ==
    /\ BufStep /\ x \notin BufLive
    /\ \E r \in create_buffer(T, Home(x), size, BM) :
          BufStore(IF r.ok THEN With(buf.live, x, T, r.v) ELSE buf.live, r.bm,
                   BufCall("create", T, size, r))

\* T x{y};  y a Typed_buffer
BufCopy(x, y) ==
    /\ BufStep /\ x \notin BufLive /\ y \in BufLive
    /\ BufferKind(buf.live[y].T) = "Typed_buffer"
    /\ LET T == buf.live[y].T
       IN  \E r \in Typed_buffer_copy(T, Home(x), buf.live[y].v, BM) :
              BufStore(IF r.ok THEN With(buf.live, x, T, r.v) ELSE buf.live, r.bm,
                       BufCall("copy", T, 0, r))

\* x = y;  Typed_buffer objects of one type
BufAssign(x, y) ==
    /\ BufStep /\ x \in BufLive /\ y \in BufLive /\ x # y
    /\ buf.live[x].T = buf.live[y].T
    /\ BufferKind(buf.live[y].T) = "Typed_buffer"
    /\ LET T == buf.live[y].T
       IN  \E r \in Typed_buffer_assign(T, Home(x), buf.live[x].v, buf.live[y].v, BM) :
              BufStore(With(buf.live, x, T, r.v), r.bm, BufCall("assign", T, 0, r))

\* T x{std::move(y)};  y a Typed_buffer
BufMove(x, y) ==
    /\ BufStep /\ x \notin BufLive /\ y \in BufLive
    /\ BufferKind(buf.live[y].T) = "Typed_buffer"
    /\ LET T == buf.live[y].T
           o == Typed_buffer_move(T, Home(x), buf.live[y].v)
       IN  BufStore(With(With(buf.live, y, T, o[2]), x, T, o[1]), BM,
                    BufCall("move", T, 0, Built(o[1], BM)))

\* x = std::move(y);  Typed_buffer objects of one type
BufMoveAssign(x, y) ==
    /\ BufStep /\ x \in BufLive /\ y \in BufLive /\ x # y
    /\ buf.live[x].T = buf.live[y].T
    /\ BufferKind(buf.live[y].T) = "Typed_buffer"
    /\ LET T == buf.live[y].T
       IN  \E o \in Typed_buffer_move_assign(T, Home(x), buf.live[x].v,
                                             buf.live[y].v, BM) :
              BufStore(With(With(buf.live, y, T, o[2]), x, T, o[1]), o[3],
                       BufCall("move_assign", T, 0, Built(o[1], o[3])))

\* the end of x's lifetime
BufDestroy(x) ==
    /\ BufStep /\ x \in BufLive
    /\ LET T == buf.live[x].T
       IN  \E bm \in Buffer_dtor(T, buf.live[x].v, BM) :
              BufStore(Without(buf.live, x), bm,
                       BufCall("destroy", T, 0, Thrown("none", bm)))

BufInit ==
    /\ AllocInit({"Malloc"})
    /\ mem = <<>>
    /\ bop = NoBlockOp
    /\ NoPointers
    /\ buf = NoBuffers
    /\ ref = NoRef

BufNext ==
    \/ \E x \in BufNames, T \in BufferTypes, size \in BufSizes : BufCreate(x, T, size)
    \/ \E x, y \in BufNames : BufCopy(x, y)
    \/ \E x, y \in BufNames : BufAssign(x, y)
    \/ \E x, y \in BufNames : BufMove(x, y)
    \/ \E x, y \in BufNames : BufMoveAssign(x, y)
    \/ \E x \in BufNames : BufDestroy(x)

BufSpec == BufInit /\ [][BufNext]_allVars

\* the bytes a buffer of type T asks its storage for, for size elements
BytesOf(T, size) ==
    IF BufferKind(T) = "Typed_buffer" /\ size > 0 THEN size * type_bytes_size_ ELSE size

\* the buffers whose only storage is a Stack_buffer
InPlace(T) == T \in {"Stack_buffer", "Typed_buffer<S,Stack_buffer>"}

\* an allocate call of the operation reported an error
Failed(c) == \E i \in 1 .. Len(c.calls) : ~c.calls[i].ok

CreateReported ==
    LET c == buf.last
    IN  c.op = "create"
            => IF c.size < 0 \/ (InPlace(c.T) /\ BytesOf(c.T, c.size) > Stack_size)
               THEN ~c.ok /\ c.ex = "invalid_size"
               ELSE IF Failed(c) THEN ~c.ok /\ c.ex = "allocator_failure"
               ELSE c.ok /\ c.n = c.size /\ (c.e <=> c.size = 0)

SmallBufferDispatch ==
    LET c == buf.last
    IN  (c.op = "create" /\ BufferKind(c.T) = "Fallback_buffer" /\ c.size >= 0)
            => IF c.size <= Stack_size
               THEN c.ok /\ c.in_place /\ c.calls = <<>> /\ c.n = c.size
               ELSE /\ Len(c.calls) = 1 /\ c.calls[1].s = c.size
                    /\ c.ok <=> c.calls[1].ok
                    /\ c.ok => ~c.in_place /\ c.n = c.size

\* C35: a Fallback_buffer<Stack_buffer<S>, Allocated_buffer<A>> constructed
\* with 0 <= n <= S is in place and calls A.allocate not once; with n > S it
\* calls A.allocate once, for n bytes, and fails exactly when that call
\* fails; the buffer constructed has size() = n
C35_Dispatch == SmallBufferDispatch

\* a Fallback_buffer over its capacity that the allocator served
C35_Witness ==
    /\ buf.last.op = "create" /\ BufferKind(buf.last.T) = "Fallback_buffer"
    /\ buf.last.size > Stack_size /\ buf.last.ok /\ ~buf.last.in_place
    /\ buf.last.n = buf.last.size

\* the buffers alive whose elements have constructors and destructors
TypedLive ==
    { x \in BufLive : /\ BufferKind(buf.live[x].T) = "Typed_buffer"
                      /\ ~Fundamental(buf.live[x].T) }

\* the slots the destructor of the buffer named x will run destruct_at on
SlotsOf(x) == Slots(Typed_block(buf.live[x].T, buf.live[x].v))

\* no destructor ran on a slot that holds no constructed element
NoDeadDestruct == buf.ub # "object not alive"

\* every constructed element is a slot of a buffer alive, whose destructor
\* is still to run on it
NoLostElement == \A e \in buf.elems : \E x \in TypedLive : e \in SlotsOf(x)

\* no element is a slot of two buffers alive
NoSharedElement ==
    \A x, y \in TypedLive : x # y => SlotsOf(x) \cap SlotsOf(y) \cap buf.elems = {}

\* C36: over construction, copy and move construction and assignment and
\* destruction of Typed_buffer objects of a non-fundamental element type,
\* each destructor that runs finds a constructed element, and each
\* constructed element has exactly one buffer whose destructor will run on it
C36_Lifetime == NoDeadDestruct /\ NoLostElement /\ NoSharedElement

(***************************************************************************)
(* The program that makes allocate and deallocate calls on an allocator    *)
(* built on a Stack_allocator, each block deallocated once.                *)
(***************************************************************************)
\* Stack_allocator and what Free_list, Stats, Shared and Fallback make of it
StackFamily == {"Stack", "Free_list<Stack>", "Stats<Stack>", "Shared<Stack>",
                "Fallback<Stack,Malloc>"}

StackFamilyInit ==
    /\ AllocInit(StackFamily)
    /\ mem = <<>>
    /\ bop = NoBlockOp
    /\ NoPointers
    /\ buf = NoBuffers
    /\ ref = NoRef

\* the k nodes of the free list from n on are still in memory the list owns
RECURSIVE Cached(_, _)
Cached(n, k) ==
    (k > 0 /\ n # Null) => (n \in DOMAIN nodes /\ Cached(nodes[n].next, k - 1))

\* reading a cached node whose memory was handed out again is undefined:
\* the run is followed up to there
Readable == (Kind(type_) = "Free_list") => Cached(inst.root_, inst.list_size_)

StackFamilyNext == Readable /\ (Allocate \/ Deallocate)

StackFamilySpec == StackFamilyInit /\ [][StackFamilyNext]_allVars

\* the caller's blocks that lie in the stacks
StackLive == { i \in 1 .. Len(live) : stack_owns(live[i].p_) }

\* the bytes the allocator took from the stack for the block b
Extent(b) ==
    IF Kind(type_) = "Free_list" /\ InRange(b.s_) THEN Max_size ELSE Even(b.s_)

\* the block lies in one buffer, at an even offset, below the bump pointer
Placed(b) ==
    LET i == BufferOf(b.p_)
    IN  /\ (b.p_ - buffers_(i)) % 2 = 0
        /\ b.p_ + Extent(b) <= ptrs_[i]

BumpInside ==
    \A i \in Stacks : ptrs_[i] >= buffers_(i) /\ ptrs_[i] <= buffers_(i) + Buffer_size

Disjoint ==
    \A i, k \in StackLive :
        i # k => \/ live[i].p_ + Extent(live[i]) <= live[k].p_
                 \/ live[k].p_ + Extent(live[k]) <= live[i].p_

\* C37: after any allocate and deallocate calls, each block deallocated at
\* most once, every block the caller holds in a stack lies in one buffer at
\* an even offset below the bump pointer, the bump pointers stay inside
\* their buffers, and no two such blocks overlap
C37_NoOverlap ==
    (type_ \in StackFamily)
        => (\A i \in StackLive : Placed(live[i])) /\ BumpInside /\ Disjoint

(***************************************************************************)
(* The program with two Free_list_allocator objects: the instance and a    *)
(* second object that is copy-, move- or default-constructed, assigned     *)
(* from and to, and destroyed, while the caller allocates and deallocates  *)
(* through both.                                                           *)
(***************************************************************************)
\* operator=(const Free_list_allocator& other), this # &other: set of
\* <<*this, machine state>>.  It returns *this by value: a copy that is
\* made and destroyed.
Free_list_assign(t, this, other, g) ==
    LET a == [internal_ |-> other.internal_, root_ |-> Null, list_size_ |-> 0]
    IN  UNION { { <<a, d.g>> : d \in Free_list_destroy(t, c[1], c[2]) }
                : c \in Free_list_copy(t, a, g) }

\* Free_list_allocator(Free_list_allocator&& other): <<the object, other>>
Free_list_move(other) ==
    <<[internal_ |-> other.internal_, root_ |-> other.root_,
       list_size_ |-> other.list_size_],
      [other EXCEPT !.root_ = Null, !.list_size_ = 0]>>

\* operator=(Free_list_allocator&& other), this # &other: <<*this, other>>
Free_list_move_assign(this, other) ==
    <<[internal_ |-> other.internal_, root_ |-> other.root_,
       list_size_ |-> other.list_size_],
      [other EXCEPT !.root_ = Null, !.list_size_ = 0]>>

\* the two objects: 0 is the instance, 1 the second object
ListObjects == {0, 1}

Exists(x) == IF x = 0 THEN alive ELSE copy_ # <<>>

Obj(x) == IF x = 0 THEN inst ELSE copy_[1]

\* the state after a call that leaves object x as a
Put(x, a, g) ==
    /\ inst' = IF x = 0 THEN a ELSE inst
    /\ copy_' = IF x = 0 THEN copy_ ELSE <<a>>
    /\ Store(g)
    /\ UNCHANGED <<alive, scen, hist>>
    /\ UNCHANGED others

\* the state after a call that leaves the instance as a and the second
\* object as c
PutBoth(a, c, g, op) ==
    /\ inst' = a
    /\ copy_' = <<c>>
    /\ Store(g)
    /\ last' = Call(op, 0, Value(EmptyBlock), EmptyBlock, EmptyBlock)
    /\ UNCHANGED <<alive, live, by, scen, hist>>
    /\ UNCHANGED others

ListAllocate(x) ==
    /\ Exists(x)
    /\ \E n \in Sizes : \E o \in allocate(type_, Obj(x), G, n) :
        /\ (o.r.ok /\ ~empty(o.r.b)) => Len(live) < LiveCap
        /\ Put(x, o.a, o.g)
        /\ live' = IF o.r.ok /\ ~empty(o.r.b) THEN Append(live, o.r.b) ELSE live
        /\ by' = IF o.r.ok /\ ~empty(o.r.b) THEN Append(by, x) ELSE by
        /\ last' = [Call("allocate", n, o.r, EmptyBlock, EmptyBlock) EXCEPT !.via = x]

ListDeallocate(x) ==
    /\ Exists(x)
    /\ \E i \in 1 .. Len(live) : \E o \in deallocate(type_, Obj(x), G, live[i]) :
        /\ Put(x, o.a, o.g)
        /\ live' = Remove(live, i)
        /\ by' = Remove(by, i)
        /\ last' = [Call("deallocate", 0, Value(EmptyBlock), live[i], o.b)
                      EXCEPT !.via = x, !.by = by[i]]

\* Allocator c{};
ListDefault ==
    /\ alive /\ copy_ = <<>>
    /\ PutBoth(inst, create(type_), G, "create")

\* Allocator c{ a };
ListCopyConstruct ==
    /\ alive /\ copy_ = <<>>
    /\ \E c \in Free_list_copy(type_, inst, G) : PutBoth(inst, c[1], c[2], "copy")

\* Allocator c{ std::move(a) };
ListMoveConstruct ==
    /\ alive /\ copy_ = <<>>
    /\ LET m == Free_list_move(inst) IN PutBoth(m[2], m[1], G, "move")

\* x = y;
ListCopyAssign(x) ==
    /\ alive /\ copy_ # <<>>
    /\ \E r \in Free_list_assign(type_, Obj(x), Obj(1 - x), G) :
          IF x = 0 THEN PutBoth(r[1], copy_[1], r[2], "assign")
          ELSE PutBoth(inst, r[1], r[2], "assign")

\* x = std::move(y);
ListMoveAssign(x) ==
    /\ alive /\ copy_ # <<>>
    /\ LET m == Free_list_move_assign(Obj(x), Obj(1 - x))
       IN  IF x = 0 THEN PutBoth(m[1], m[2], G, "move_assign")
           ELSE PutBoth(m[2], m[1], G, "move_assign")

\* the second object goes out of scope
ListDestroy ==
    /\ copy_ # <<>>
    /\ \E d \in Free_list_destroy(type_, copy_[1], G) :
        /\ Store(d.g)
        /\ copy_' = <<>>
        /\ last' = [Call("destroy_copy", 0, Value(EmptyBlock), EmptyBlock, EmptyBlock)
                      EXCEPT !.log = d.log]
    /\ UNCHANGED <<inst, alive, live, by, scen, hist>>
    /\ UNCHANGED others

ListInit ==
    /\ AllocInit({"Free_list<Malloc>"})
    /\ mem = <<>>
    /\ bop = NoBlockOp
    /\ NoPointers
    /\ buf = NoBuffers
    /\ ref = NoRef

ListNext ==
    \/ \E x \in ListObjects : ListAllocate(x) \/ ListDeallocate(x)
    \/ ListDefault \/ ListCopyConstruct \/ ListMoveConstruct
    \/ \E x \in ListObjects : ListCopyAssign(x) \/ ListMoveAssign(x)
    \/ ListDestroy
    \/ Destroy

ListSpec == ListInit /\ [][ListNext]_allVars

\* the nodes cached by object x, head first
Chain(x) ==
    IF Exists(x) THEN Walk(nodes, Obj(x).root_, Obj(x).list_size_) ELSE <<>>

\* every region that is allocated and not held by the caller is cached by
\* an object that will release it
NothingLost ==
    heap \ Pointers(live) \subseteq (Range(Chain(0)) \cup Range(Chain(1)))

\* no object caches a node twice, no node is cached by both, and every
\* cached node is allocated memory the caller does not hold
CachedOnce ==
    /\ \A x \in ListObjects : Distinct(Chain(x)) /\ Range(Chain(x)) \subseteq heap
    /\ Range(Chain(0)) \cap Range(Chain(1)) = {}
    /\ (Range(Chain(0)) \cup Range(Chain(1))) \cap Pointers(live) = {}

\* C38: over allocate, deallocate, copy and move construction, copy and
\* move assignment and destruction of Free_list allocators, every cached
\* block stays in exactly one free list until an allocate pops it or a
\* destructor or an assignment hands it to Inner.deallocate: no block is
\* lost and none is released twice
C38_CachedBlocks == (Kind(type_) = "Free_list") => (NothingLost /\ CachedOnce)

(***************************************************************************)
(* The program that allocates and deallocates through                      *)
(* Fallback<Free_list<Malloc>, Stack> and destroys it: std::malloc may     *)
(* fail, and the block then comes from the Stack.                          *)
(***************************************************************************)
RoutingInit ==
    /\ AllocInit({"Fallback<Free_list<Malloc>,Stack>"})
    /\ mem = <<>>
    /\ bop = NoBlockOp
    /\ NoPointers
    /\ buf = NoBuffers
    /\ ref = NoRef

RoutingNext == Allocate \/ Deallocate \/ Destroy \/ Construct

RoutingSpec == RoutingInit /\ [][RoutingNext]_allVars

\* the nodes the primary Free_list has cached
PrimaryChain == Walk(nodes, inst.primary_.root_, inst.primary_.list_size_)

\* the Free_list owns only what std::malloc produced for it
OwnsItsOwn ==
    \A i \in 1 .. Len(live) :
        Free_list_owns(PrimaryOf(type_), inst.primary_, G, live[i])
            => ~stack_owns(live[i].p_)

\* no block of the Stack is in the free list
NoStackNode == \A n \in Range(PrimaryChain) : ~stack_owns(n)

\* no block of the Stack was handed to Malloc_allocator::deallocate
NoStackRelease ==
    [][ last'.op = "destroy"
            => \A i \in 1 .. Len(last'.log) : ~stack_owns(last'.log[i].p_) ]_allVars

\* C39: Free_list_allocator::owns is true only of blocks the allocator
\* produced; in Fallback<Free_list<Malloc>, Stack> a block the Stack
\* produced is never put into the free list nor released to Malloc
C39_Ownership ==
    [](type_ = "Fallback<Free_list<Malloc>,Stack>" /\ alive
          => OwnsItsOwn /\ NoStackNode)
    /\ NoStackRelease

(***************************************************************************)
(* The program that makes the same allocate and deallocate calls on a      *)
(* Stats_allocator over a Stack_allocator and, in a run of its own, on the *)
(* Stack_allocator alone.  While every result is the same in both runs,    *)
(* the caller holds the same blocks in both; the comparison ends with the  *)
(* first result that differs.                                              *)
(***************************************************************************)
PassInit ==
    /\ AllocInit({"Stats<Stack>"})
    /\ mem = <<>>
    /\ bop = NoBlockOp
    /\ NoPointers
    /\ buf = NoBuffers
    /\ ref = NoRef

\* the machine state of the run of Inner alone
RefG == [G EXCEPT !.ptrs_ = ref.ptrs_]

\* the state after a call in both runs
PassStore(o) ==
    /\ inst' = o.a
    /\ Store(o.g)
    /\ UNCHANGED <<alive, copy_, by, scen, hist, blockVars, ptrVars, bufVars>>

\* b = stats.allocate(n), and b = inner.allocate(n) in the run of Inner alone
PassAllocate ==
    /\ ref.same
    /\ \E n \in Sizes :
       \E o \in allocate(type_, inst, G, n) :
       \E i \in allocate(InnerOf(type_), inst.internal_, RefG, n) :
        /\ (o.r.ok /\ ~empty(o.r.b)) => Len(live) < MaxLive
        /\ Bounded(o.a)
        /\ PassStore(o)
        /\ live' = IF o.r.ok /\ ~empty(o.r.b) THEN Append(live, o.r.b) ELSE live
        /\ last' = Call("allocate", n, o.r, EmptyBlock, EmptyBlock)
        /\ ref' = [ptrs_ |-> i.g.ptrs_, same |-> (o.r = i.r)]

\* stats.deallocate(b), and inner.deallocate(b) in the run of Inner alone
PassDeallocate ==
    /\ ref.same
    /\ \E k \in 1 .. Len(live) :
       \E o \in deallocate(type_, inst, G, live[k]) :
       \E i \in deallocate(InnerOf(type_), inst.internal_, RefG, live[k]) :
        /\ Bounded(o.a)
        /\ PassStore(o)
        /\ live' = Remove(live, k)
        /\ last' = Call("deallocate", 0, Value(EmptyBlock), live[k], o.b)
        /\ ref' = [ptrs_ |-> i.g.ptrs_, same |-> (o.b = i.b)]

PassNext == PassAllocate \/ PassDeallocate

PassSpec == PassInit /\ [][PassNext]_allVars

\* C40: for any sequence of allocate and deallocate calls, Stats<Inner, N>
\* gives the results (success or error, and block) that Inner alone gives
\* for that sequence
C40_PassThrough == ref.same

=============================================================================
